---- MODULE Spec2Model ----
(***************************************************************************)
(* SafeRoute: route selection state (RouteContext.tsx), weather/time       *)
(* context (WeatherContext.tsx) and the smart recommendation of the route  *)
(* list (RoutesList, getSmartRecommendation).                              *)
(*                                                                         *)
(* Numbers.  Durations and distances are kept in hundredths of a second    *)
(* and of a metre, so that the multipliers 1.1, 1.15, 0.9, 0.95 and 1.05   *)
(* of the source stay exact.  Scores are kept in tenths of a point, so     *)
(* that 0.4 * shadePercent and 0.3 * shadePercent stay exact (for the      *)
(* shade values of the source, 30 60 75 80, the IEEE products are exact    *)
(* too: 12 24 30 32 and 9 18 22.5 24).                                     *)
(* The IEEE products by 1.1 and 1.15 can differ from the exact ones in the *)
(* last bit (2000 * 1.1 is 2200.0000000000005); the durations of the model *)
(* are chosen so that no comparison is decided by so small a difference.   *)
(***************************************************************************)
EXTENDS Integers, Sequences, FiniteSets, TLC

VARIABLES
    origin,             \* RouteProvider: useState<Location | null>
    destination,        \* RouteProvider: useState<Location | null>
    routes,             \* RouteProvider: useState<RouteData[]>
    selectedRoute,      \* RouteProvider: useState<RouteData | null>
    transportMode,      \* RouteProvider: useState<TransportMode>
    isLoading,          \* RouteProvider: useState(false)
    error,              \* RouteProvider: useState<string | null>
    inflight,           \* fetchRoutes calls suspended at `await fetch(url)`
    fetchCount,         \* number of fetchRoutes calls made so far
    routePreference,    \* RoutesList: useState, read from localStorage
    storedPreference,   \* localStorage item 'routePreference'
    weather,            \* WeatherProvider: useState<WeatherData | null>
    alerts,             \* WeatherProvider: useState<WeatherAlert[]>
    sunTimes,           \* WeatherProvider: useState<{sunrise?, sunset?}>
    weatherIsLoading,   \* WeatherProvider: useState(false)
    weatherError,       \* WeatherProvider: useState<string | null>
    weatherInflight,    \* fetchWeather calls suspended at an await
    apiKey,             \* OPENWEATHER_API_KEY of the build
    timeContext,        \* WeatherProvider: useMemo(calculateTimeContext)
    now,                \* the wall clock, what `new Date()` reads
    smartRecommendation,\* RoutesList: result of the last render
    query,              \* LocationSearch (start field): useState(value?.name)
    results,            \* LocationSearch: useState<Location[]>([])
    isUserTyping,       \* LocationSearch: useState(false)
    isOpen,             \* LocationSearch: useState(false)
    isSearching,        \* LocationSearch: useState(false)
    searchTimer,        \* LocationSearch: the pending timeout of timeoutRef
    searchInflight,     \* searchLocation calls suspended at `await fetch`
    searchCount,        \* number of searchLocation calls made so far
    mounted,            \* the component tree of main.tsx is mounted
    timers,             \* the intervals of the window that are active
    interval,           \* WeatherProvider: `interval` of the effect closure
    timerCount          \* number of setInterval calls made so far

routeVars == <<origin, destination, routes, selectedRoute, transportMode,
               isLoading, error, inflight, fetchCount>>
listVars == <<routePreference, storedPreference, smartRecommendation>>
weatherVars == <<weather, alerts, sunTimes, weatherIsLoading, weatherError,
                 weatherInflight, apiKey, timeContext, now>>
searchVars == <<query, results, isUserTyping, isOpen, isSearching,
                searchTimer, searchInflight, searchCount>>
timerVars == <<mounted, timers, interval, timerCount>>
vars == <<routeVars, listVars, weatherVars, searchVars, timerVars>>

(***************************************************************************)
(* Bounds of the model.                                                    *)
(***************************************************************************)
MaxRaw == 5        \* most raw paths in one answer of the routing provider
MaxFetches == 2    \* most fetchRoutes calls in one behaviour
MaxPending == 2    \* most fetchWeather calls pending at a time
MaxSearches == 3   \* most searchLocation calls in one behaviour
MaxMounts == 3     \* most setInterval calls in one behaviour

(***************************************************************************)
(* Values.                                                                 *)
(***************************************************************************)
\* JavaScript null, for the record-valued states
Null == [null |-> TRUE]
\* JavaScript null, for the string-valued states
NoLocation == "null"
NoError == "null"

DEFAULT_DESTINATION == "6 MetroTech Center"
Locations == {DEFAULT_DESTINATION, "Washington Square"}
TransportModes == {"driving-traffic", "walking", "cycling"}

RECURSIVE SumSeq(_)
SumSeq(s) == IF s = <<>> THEN 0 ELSE Head(s) + SumSeq(Tail(s))

\* the element of sequence s found by Array.prototype.find, as a set: the
\* first of the elements at the indices `hits` that satisfy the test, or
\* nothing
FirstOf(s, hits) ==
    IF hits = {} THEN {}
    ELSE {s[CHOOSE i \in hits : \A j \in hits : i <= j]}

(***************************************************************************)
(* Route characterization (RouteContext.tsx).                              *)
(***************************************************************************)
types == <<"fastest", "safest", "comfortable", "scenic">>

Max(a, b) == IF a >= b THEN a ELSE b
\* Math.ceil(n / d) for n >= 0, d > 0
CeilDiv(n, d) == (n + d - 1) \div d

\* steps.filter(s => type === 'turn' || type === 'end of road').length
countCrossings(maneuvers) ==
    Cardinality({i \in 1..Len(maneuvers) :
                    maneuvers[i] \in {"turn", "end of road"}})

\* the characteristics table of analyzeRouteCharacteristics
characteristics(type, crossingCount) ==
    CASE type = "fastest" ->
           [nightFriendly |-> FALSE,
            safety |-> [lightingLevel |-> "mixed",
                        crossingCount |-> crossingCount,
                        sidewalkCoverage |-> "partial",
                        busyRoads |-> CeilDiv(crossingCount, 2)],
            comfort |-> [hillLevel |-> "some-hills", shadePercent |-> 30,
                         restSpotCount |-> 1, restSpotTypes |-> <<"cafe">>]]
      [] type = "safest" ->
           [nightFriendly |-> TRUE,
            safety |-> [lightingLevel |-> "well-lit",
                        crossingCount |-> Max(1, crossingCount - 1),
                        sidewalkCoverage |-> "continuous",
                        busyRoads |-> Max(0, CeilDiv(crossingCount, 3))],
            comfort |-> [hillLevel |-> "flat", shadePercent |-> 60,
                         restSpotCount |-> 3,
                         restSpotTypes |-> <<"bench", "cafe">>]]
      [] type = "comfortable" ->
           [nightFriendly |-> TRUE,
            safety |-> [lightingLevel |-> "well-lit",
                        crossingCount |-> crossingCount,
                        sidewalkCoverage |-> "continuous",
                        busyRoads |-> 1],
            comfort |-> [hillLevel |-> "flat", shadePercent |-> 75,
                         restSpotCount |-> 5,
                         restSpotTypes |-> <<"bench", "cafe", "park">>]]
      [] type = "scenic" ->
           [nightFriendly |-> FALSE,
            safety |-> [lightingLevel |-> "mixed",
                        crossingCount |-> crossingCount + 1,
                        sidewalkCoverage |-> "continuous",
                        busyRoads |-> 0],
            comfort |-> [hillLevel |-> "some-hills", shadePercent |-> 80,
                         restSpotCount |-> 6,
                         restSpotTypes |-> <<"bench", "park", "cafe">>]]

\* analyzeRouteCharacteristics(route, index), index counted from 0
analyzeRouteCharacteristics(raw, index) ==
    characteristics(types[(index % 4) + 1], countCrossings(raw.maneuvers))

\* one element of data.routes.map(...): the route made of a raw path.
\* The geometry of a provider path is the path the provider computed for
\* the request, so it names the request's end points and profile.
transformRoute(raw, index, req) ==
    LET c == analyzeRouteCharacteristics(raw, index)
    IN  [id |-> <<"route", index>>,
         type |-> types[(index % 4) + 1],
         distance |-> raw.distance * 100,
         duration |-> raw.duration * 100,
         geometry |-> [from |-> req.origin, to |-> req.destination,
                       profile |-> req.mode],
         nightFriendly |-> c.nightFriendly,
         safety |-> c.safety,
         comfort |-> c.comfort]

\* routeProfiles[index] for index 0, 1, 2; multiplier in hundredths
routeProfiles(index) ==
    CASE index = 0 ->
           [type |-> "fastest", multiplier |-> 100, nightFriendly |-> FALSE,
            safety |-> [lightingLevel |-> "mixed", crossingCount |-> 4,
                        sidewalkCoverage |-> "partial", busyRoads |-> 2],
            comfort |-> [hillLevel |-> "some-hills", shadePercent |-> 30,
                         restSpotCount |-> 1, restSpotTypes |-> <<"cafe">>]]
      [] index = 1 ->
           [type |-> "safest", multiplier |-> 110, nightFriendly |-> TRUE,
            safety |-> [lightingLevel |-> "well-lit", crossingCount |-> 3,
                        sidewalkCoverage |-> "continuous", busyRoads |-> 1],
            comfort |-> [hillLevel |-> "flat", shadePercent |-> 60,
                         restSpotCount |-> 3,
                         restSpotTypes |-> <<"bench", "cafe">>]]
      [] index = 2 ->
           [type |-> "comfortable", multiplier |-> 115,
            nightFriendly |-> TRUE,
            safety |-> [lightingLevel |-> "well-lit", crossingCount |-> 3,
                        sidewalkCoverage |-> "continuous", busyRoads |-> 1],
            comfort |-> [hillLevel |-> "flat", shadePercent |-> 75,
                         restSpotCount |-> 5,
                         restSpotTypes |-> <<"bench", "cafe", "park">>]]

\* a variant of the pushed route that keeps the comfort profile of the base
\* route
synthesizedRouteBaseComfort(baseRoute, index) ==
    LET profile == routeProfiles(index)
    IN  [baseRoute EXCEPT
            !.id = <<"route", index>>,
            !.type = profile.type,
            !.nightFriendly = profile.nightFriendly,
            !.duration = (baseRoute.duration * profile.multiplier) \div 100,
            !.distance = (baseRoute.distance * (100 + index * 5)) \div 100,
            !.safety = profile.safety]

\* the body of the loop `while (transformedRoutes.length < 3)`:
\* the route pushed when the list has `index` routes
synthesizedRoute(baseRoute, index) ==
    LET profile == routeProfiles(index)
    IN  [baseRoute EXCEPT
            !.id = <<"route", index>>,
            !.type = profile.type,
            !.nightFriendly = profile.nightFriendly,
            !.duration = (baseRoute.duration * profile.multiplier) \div 100,
            !.distance = (baseRoute.distance * (100 + index * 5)) \div 100,
            !.safety = profile.safety,
            !.comfort = profile.comfort]

\* the number of routes the synthesis loop fills the list up to
SynthesisTarget == 3

\* while (transformedRoutes.length < 3) { ...push... }
RECURSIVE ensureThreeRoutes(_)
ensureThreeRoutes(transformedList) ==
    IF Len(transformedList) < SynthesisTarget
    THEN ensureThreeRoutes(
            Append(transformedList,
                   synthesizedRoute(transformedList[1],
                                    Len(transformedList))))
    ELSE transformedList

\* a variant of the try block that stores the mapped answer as it is, without
\* the fill loop
transformedRoutesAsAnswered(rawRoutes, req) ==
    [i \in 1..Len(rawRoutes) |-> transformRoute(rawRoutes[i], i - 1, req)]

\* the try block of fetchRoutes after a non-empty answer: map, then fill
transformedRoutes(rawRoutes, req) ==
    ensureThreeRoutes([i \in 1..Len(rawRoutes) |->
                          transformRoute(rawRoutes[i], i - 1, req)])

\* Haversine distance in metres between two locations.  The trigonometry is
\* not modelled: the distance is a fixed symmetric table that is 0 exactly
\* between a location and itself.
haversine(from, to) == IF from = to THEN 0 ELSE 2800

\* the catch block of fetchRoutes: the three straight-line routes
fallbackRoutes(req) ==
    LET distance == haversine(req.origin, req.destination)
        \* distance / 1.4, in hundredths of a second
        duration == (distance * 1000) \div 14
        fallbackGeometry == [from |-> req.origin, to |-> req.destination,
                             profile |-> "straight-line"]
    IN  << [id |-> <<"fallback", 0>>, type |-> "fastest",
            distance |-> distance * 95, duration |-> (duration * 9) \div 10,
            geometry |-> fallbackGeometry, nightFriendly |-> FALSE,
            safety |-> [lightingLevel |-> "mixed", crossingCount |-> 3,
                        sidewalkCoverage |-> "partial", busyRoads |-> 2],
            comfort |-> [hillLevel |-> "some-hills", shadePercent |-> 30,
                         restSpotCount |-> 1, restSpotTypes |-> <<"cafe">>]],
           [id |-> <<"fallback", 1>>, type |-> "safest",
            distance |-> distance * 100, duration |-> duration,
            geometry |-> fallbackGeometry, nightFriendly |-> TRUE,
            safety |-> [lightingLevel |-> "well-lit", crossingCount |-> 2,
                        sidewalkCoverage |-> "continuous", busyRoads |-> 1],
            comfort |-> [hillLevel |-> "flat", shadePercent |-> 60,
                         restSpotCount |-> 3,
                         restSpotTypes |-> <<"bench", "cafe">>]],
           [id |-> <<"fallback", 2>>, type |-> "comfortable",
            distance |-> distance * 110,
            duration |-> (duration * 115) \div 100,
            geometry |-> fallbackGeometry, nightFriendly |-> TRUE,
            safety |-> [lightingLevel |-> "well-lit", crossingCount |-> 2,
                        sidewalkCoverage |-> "continuous", busyRoads |-> 0],
            comfort |-> [hillLevel |-> "flat", shadePercent |-> 75,
                         restSpotCount |-> 5,
                         restSpotTypes |-> <<"bench", "cafe", "park">>]] >>

\* transformedRoutes.find(r => r.type === 'safest') || transformedRoutes[0]
defaultSelection(rs) ==
    LET found == FirstOf(rs, {i \in 1..Len(rs) : rs[i].type = "safest"})
    IN  IF found = {} THEN rs[1] ELSE CHOOSE r \in found : TRUE

(***************************************************************************)
(* The routing provider's answers.                                         *)
(***************************************************************************)
\* the maneuver types of a raw path with `turns` turns, every third of them
\* an 'end of road'
maneuversWith(turns) ==
    <<"depart">> \o
    [i \in 1..turns |-> IF i % 3 = 0 THEN "end of road" ELSE "turn"] \o
    <<"continue", "arrive">>

\* a raw path of the Directions answer: seconds, metres, maneuver types
RawPath(duration, distance, turns) ==
    [duration |-> duration, distance |-> distance,
     maneuvers |-> maneuversWith(turns)]

\* the answers the provider gives in the route selection state machine:
\* 1 to MaxRaw alternatives, the i-th one a little longer and with one more
\* turn than the one before
RouteAnswers ==
    {[i \in 1..n |-> RawPath(870 + 130 * i, 1200 + 170 * i, i + 1)] :
        n \in 1..MaxRaw}

(***************************************************************************)
(* Weather and time context (WeatherContext.tsx).                          *)
(* A clock value is [hour, minute, day, month] as Date reads them: day 0   *)
(* is Sunday, month 0 is January.  Sun times are kept as minutes of the    *)
(* current day.  A WeatherData value keeps the fields the rules read.      *)
(***************************************************************************)
\* a variant of getTimeOfDay whose night band ends at midnight
getTimeOfDayNightToMidnight(hour) ==
    IF hour >= 5 /\ hour < 7 THEN "early-morning"
    ELSE IF hour >= 7 /\ hour < 12 THEN "morning"
    ELSE IF hour >= 12 /\ hour < 14 THEN "midday"
    ELSE IF hour >= 14 /\ hour < 17 THEN "afternoon"
    ELSE IF hour >= 17 /\ hour < 21 THEN "evening"
    ELSE IF hour >= 21 THEN "night"
    ELSE "late-night"

\* getTimeOfDay(hour)
getTimeOfDay(hour) ==
    IF hour >= 5 /\ hour < 7 THEN "early-morning"
    ELSE IF hour >= 7 /\ hour < 12 THEN "morning"
    ELSE IF hour >= 12 /\ hour < 14 THEN "midday"
    ELSE IF hour >= 14 /\ hour < 17 THEN "afternoon"
    ELSE IF hour >= 17 /\ hour < 21 THEN "evening"
    ELSE IF hour >= 21 \/ hour < 1 THEN "night"
    ELSE "late-night"

\* toLocaleTimeString('en-US', {hour: 'numeric', minute: '2-digit'})
displayTimeOf(clock) ==
    [hour |-> IF clock.hour % 12 = 0 THEN 12 ELSE clock.hour % 12,
     minute |-> clock.minute,
     pm |-> clock.hour >= 12]

\* calculateTimeContext(sunriseTimestamp, sunsetTimestamp) at clock value
\* `clock`; sun is Null when a sun time is missing
calculateTimeContext(clock, sun) ==
    LET isWeekend == clock.day = 0 \/ clock.day = 6
        isMorningRush == clock.hour >= 7 /\ clock.hour < 9
        isEveningRush == clock.hour >= 17 /\ clock.hour < 19
        minuteOfDay == clock.hour * 60 + clock.minute
        isSummer == clock.month >= 4 /\ clock.month <= 8
        \* sunriseHour 5.5 or 6.5, sunsetHour 20 or 17.5, in minutes
        sunriseMinute == IF isSummer THEN 330 ELSE 390
        sunsetMinute == IF isSummer THEN 1200 ELSE 1050
    IN  [hour |-> clock.hour,
         minute |-> clock.minute,
         timeOfDay |-> getTimeOfDay(clock.hour),
         isDark |-> IF sun # Null
                    THEN minuteOfDay < sun.sunrise \/ minuteOfDay > sun.sunset
                    ELSE minuteOfDay < sunriseMinute
                         \/ minuteOfDay > sunsetMinute,
         isRushHour |-> ~isWeekend /\ (isMorningRush \/ isEveningRush),
         isWeekend |-> isWeekend,
         displayTime |-> displayTimeOf(clock)]

\* arr.slice(0, n)
Slice(s, n) == SubSeq(s, 1, IF n < Len(s) THEN n ELSE Len(s))

Alert(severity, title) == [severity |-> severity, title |-> title]

\* one rule of generateAlerts: the alert pushed if the rule matches
AlertIf(matches, severity, title) ==
    IF matches THEN <<Alert(severity, title)>> ELSE <<>>

\* a variant of generateAlerts that tests the active rain before the other
\* rules
generateAlertsActiveRainFirst(data) ==
    LET current == data.current
        hourly == data.hourly
        rainSoon == FirstOf(hourly,
                        {i \in 1..Len(Slice(hourly, 2)) :
                            \/ hourly[i].precipProbability > 50
                            \/ hourly[i].condition = "rain"
                            \/ hourly[i].condition = "drizzle"})
    IN  AlertIf(current.condition = "rain"
                \/ current.condition = "drizzle",
                "yellow", "Currently Raining")
        \o AlertIf(rainSoon # {} /\ current.condition # "rain",
                   "yellow", "Rain Expected")
        \o AlertIf(current.condition = "thunderstorm"
                   \/ \E i \in 1..Len(Slice(hourly, 3)) :
                          hourly[i].condition = "thunderstorm",
                   "red", "Thunderstorm Warning")
        \o AlertIf(current.temp > 90 \/ current.feelsLike > 95,
                   "orange", "Heat Advisory")
        \o AlertIf(current.temp < 32 \/ current.feelsLike < 25,
                   "orange", "Cold Weather")
        \o AlertIf(current.windSpeed > 20, "yellow", "Windy Conditions")
        \o AlertIf(current.visibility < 1000, "yellow", "Low Visibility")
        \o AlertIf(current.condition = "snow", "orange", "Snow")

\* generateAlerts(data); the message text of an alert is not modelled
generateAlerts(data) ==
    LET current == data.current
        hourly == data.hourly
        rainSoon == FirstOf(hourly,
                        {i \in 1..Len(Slice(hourly, 2)) :
                            \/ hourly[i].precipProbability > 50
                            \/ hourly[i].condition = "rain"
                            \/ hourly[i].condition = "drizzle"})
    IN  AlertIf(rainSoon # {} /\ current.condition # "rain",
                "yellow", "Rain Expected")
        \o AlertIf(current.condition = "thunderstorm"
                   \/ \E i \in 1..Len(Slice(hourly, 3)) :
                          hourly[i].condition = "thunderstorm",
                   "red", "Thunderstorm Warning")
        \o AlertIf(current.temp > 90 \/ current.feelsLike > 95,
                   "orange", "Heat Advisory")
        \o AlertIf(current.temp < 32 \/ current.feelsLike < 25,
                   "orange", "Cold Weather")
        \o AlertIf(current.windSpeed > 20, "yellow", "Windy Conditions")
        \o AlertIf(current.visibility < 1000, "yellow", "Low Visibility")
        \o AlertIf(current.condition = "rain"
                   \/ current.condition = "drizzle",
                   "yellow", "Currently Raining")
        \o AlertIf(current.condition = "snow", "orange", "Snow")

\* the number of hourly points of the mock snapshot
MockHours == 12

\* mockWeather of fetchWeather
mockWeather ==
    [current |-> [temp |-> 72, feelsLike |-> 70, condition |-> "clear",
                  precipitation |-> 0, humidity |-> 45, windSpeed |-> 8,
                  uvIndex |-> 5, visibility |-> 10000],
     hourly |-> [k \in 1..MockHours |->
                    [temp |-> 72 - (k - 1), condition |-> "clear",
                     precipProbability |-> 10, precipitation |-> 0]]]

\* one rule of getRouteWeatherTags: the tag pushed if the rule matches
TagIf(matches, tag) == IF matches THEN <<tag>> ELSE <<>>

\* a variant of getRouteWeatherTags without the rule of clear mild weather
getRouteWeatherTagsNoClearRule(w) ==
    IF w = Null THEN <<>>
    ELSE LET current == w.current
         IN  TagIf(current.condition \in {"rain", "drizzle", "snow"},
                   "Covered routes preferred")
             \o TagIf(current.temp > 85 \/ current.uvIndex > 6,
                      "Shaded routes preferred")
             \o TagIf(current.windSpeed > 15, "Wind-protected")
             \o TagIf(current.condition = "fog" \/ current.visibility < 2000,
                      "Low visibility")

\* getRouteWeatherTags() when the weather state is w
getRouteWeatherTags(w) ==
    IF w = Null THEN <<>>
    ELSE LET current == w.current
         IN  TagIf(current.condition \in {"rain", "drizzle", "snow"},
                   "Covered routes preferred")
             \o TagIf(current.temp > 85 \/ current.uvIndex > 6,
                      "Shaded routes preferred")
             \o TagIf(current.windSpeed > 15, "Wind-protected")
             \o TagIf(current.condition = "clear" /\ current.temp >= 60
                      /\ current.temp <= 80,
                      "Great walking weather")
             \o TagIf(current.condition = "fog" \/ current.visibility < 2000,
                      "Low visibility")

\* mapCondition(weatherId)
mapCondition(weatherId) ==
    IF weatherId >= 200 /\ weatherId < 300 THEN "thunderstorm"
    ELSE IF weatherId >= 300 /\ weatherId < 400 THEN "drizzle"
    ELSE IF weatherId >= 500 /\ weatherId < 600 THEN "rain"
    ELSE IF weatherId >= 600 /\ weatherId < 700 THEN "snow"
    ELSE IF weatherId >= 700 /\ weatherId < 800 THEN "fog"
    ELSE IF weatherId = 800 THEN "clear"
    ELSE "clouds"

\* kelvinToFahrenheit(k) for k in hundredths of a kelvin:
\* Math.round((k - 273.15) * 9/5 + 32), Math.round being floor(x + 0.5)
kelvinToFahrenheit(k) == ((k - 27315) * 18 + 32500) \div 1000

\* msToMph(ms) for ms in tenths of a metre per second:
\* Math.round(ms * 2.237)
msToMph(ms) == (ms * 2237 + 5000) \div 10000

\* `x || fallback` for a number x; a field the answer lacks reads as 0
OrElse(x, fallback) == IF x = 0 THEN fallback ELSE x

\* the hourly points a weather state keeps
ForecastHours == 12

\* weatherData built from the One Call answer `data`; pop is in percent, so
\* Math.round((hour.pop || 0) * 100) is the number itself
weatherFromOneCall(data) ==
    LET kept == Slice(data.hourly, ForecastHours)
    IN  [current |->
            [temp |-> kelvinToFahrenheit(data.current.temp),
             feelsLike |-> kelvinToFahrenheit(data.current.feels_like),
             condition |-> mapCondition(data.current.id),
             precipitation |-> OrElse(data.current.rain,
                                      OrElse(data.current.snow, 0)),
             humidity |-> data.current.humidity,
             windSpeed |-> msToMph(data.current.wind_speed),
             uvIndex |-> OrElse(data.current.uvi, 0),
             visibility |-> OrElse(data.current.visibility, 10000)],
         hourly |->
            [k \in 1..Len(kept) |->
                [temp |-> kelvinToFahrenheit(kept[k].temp),
                 condition |-> mapCondition(kept[k].id),
                 precipProbability |-> OrElse(kept[k].pop, 0),
                 precipitation |-> OrElse(kept[k].rain,
                                          OrElse(kept[k].snow, 0))]]]

\* weatherData built from the answer `currentData` of the basic API
weatherFromCurrent(currentData) ==
    [current |->
        [temp |-> kelvinToFahrenheit(currentData.main.temp),
         feelsLike |-> kelvinToFahrenheit(currentData.main.feels_like),
         condition |-> mapCondition(currentData.id),
         precipitation |-> OrElse(currentData.rain,
                                  OrElse(currentData.snow, 0)),
         humidity |-> currentData.main.humidity,
         windSpeed |-> msToMph(currentData.wind_speed),
         uvIndex |-> 0,
         visibility |-> OrElse(currentData.visibility, 10000)],
     hourly |-> <<>>]

\* the sun times after an answer that carries `sunrise` and `sunset` (0 when
\* the answer lacks one): set only if both are there
sunTimesAfter(sunrise, sunset) ==
    IF sunrise # 0 /\ sunset # 0
    THEN [sunrise |-> sunrise, sunset |-> sunset]
    ELSE sunTimes

(***************************************************************************)
(* The weather provider's answers.                                         *)
(***************************************************************************)
\* an hourly point of a One Call answer
HourPoint(temp, id, pop) ==
    [temp |-> temp, id |-> id, pop |-> pop, rain |-> 0, snow |-> 0]

\* One Call answers: a clear day at 294.26 K with thirteen hourly points,
\* rain due in the second hour, and the sun times of the day; a rainy windy
\* day at 283.15 K without visibility, sun times or forecast; an answer
\* that lacks the hourly list
OneCallAnswers ==
    <<[current |-> [temp |-> 29426, feels_like |-> 29315, id |-> 800,
                   rain |-> 0, snow |-> 0, humidity |-> 45,
                   wind_speed |-> 36, uvi |-> 5, visibility |-> 10000],
      hourly |-> [k \in 1..(ForecastHours + 1) |->
                     HourPoint(29426 - 50 * k,
                               IF k = 2 THEN 501 ELSE 800,
                               IF k = 2 THEN 80 ELSE 10)],
      sunrise |-> 420, sunset |-> 1020],
     [current |-> [temp |-> 28315, feels_like |-> 28204, id |-> 501,
                   rain |-> 3, snow |-> 0, humidity |-> 90,
                   wind_speed |-> 94, uvi |-> 0, visibility |-> 0],
      hourly |-> <<>>,
      sunrise |-> 0, sunset |-> 0],
     [current |-> [temp |-> 29426, feels_like |-> 29315, id |-> 800,
                   rain |-> 0, snow |-> 0, humidity |-> 45,
                   wind_speed |-> 36, uvi |-> 5, visibility |-> 10000],
      hourly |-> Null,
      sunrise |-> 420, sunset |-> 1020]>>

\* answers of the basic API: snow at 268.15 K with the sun times of the day
CurrentAnswers ==
    {[main |-> [temp |-> 26815, feels_like |-> 26593, humidity |-> 80],
      id |-> 600, rain |-> 0, snow |-> 2, wind_speed |-> 20,
      visibility |-> 1500, sunrise |-> 420, sunset |-> 1020]}

(***************************************************************************)
(* The smart recommendation (RoutesList, getSmartRecommendation).          *)
(* Scores are in tenths of a point.  A rule yields the score it adds and   *)
(* the reasons it pushes.                                                  *)
(***************************************************************************)
Rule(score, reasons) == [score |-> score, reasons |-> reasons]
NoRule == Rule(0, <<>>)
Includes(reasons, tag) == \E i \in 1..Len(reasons) : reasons[i] = tag

\* prefMap[routePreference]; undefined for a value that is not a key
prefMap(pref) ==
    CASE pref = "safe" -> "safest"
      [] pref = "fast" -> "fastest"
      [] pref = "comfy" -> "comfortable"
      [] OTHER -> "undefined"

\* the flags getSmartRecommendation derives before it scores: from the time
\* context, the weather state, the alerts, and, when there is no weather
\* state, from the month the clock reads (new Date().getMonth())
recommendationFlags(w, al, tc, month) ==
    [isDark |-> tc.isDark,
     isRushHour |-> tc.isRushHour,
     isWeekend |-> tc.isWeekend,
     isRaining |-> w # Null /\ w.current.condition \in
                                  {"rain", "drizzle", "thunderstorm"},
     isSnowing |-> w # Null /\ w.current.condition = "snow",
     isHotWeather |-> IF w # Null THEN w.current.temp > 85
                      ELSE month >= 5 /\ month <= 8,
     isColdWeather |-> IF w # Null THEN w.current.temp < 40 ELSE FALSE,
     isWindy |-> IF w # Null THEN w.current.windSpeed > 15 ELSE FALSE,
     hasWeatherAlerts |-> Len(al) > 0,
     isMidDay |-> tc.timeOfDay = "midday",
     isLateNight |-> tc.timeOfDay = "late-night"]

\* a variant of the preference rule that gives no bonus
preferenceRuleIgnored(route, pref) == NoRule

\* user preference weight
preferenceRule(route, pref) ==
    IF route.type = prefMap(pref)
    THEN Rule(300, <<"matches your preference">>)
    ELSE NoRule

\* a variant of the rain rule that pushes no reasons
rainSnowRuleNoTags(route, fl) ==
    IF fl.isRaining \/ fl.isSnowing
    THEN Rule(route.comfort.restSpotCount * 100
              + (IF route.safety.sidewalkCoverage = "continuous"
                 THEN 200 ELSE 0)
              + (IF route.type = "fastest" THEN -150 ELSE 0),
              <<>>)
    ELSE NoRule

\* a variant of the rain rule without the penalty of the fastest route
rainSnowRuleNoPenalty(route, fl) ==
    IF fl.isRaining \/ fl.isSnowing
    THEN Rule(route.comfort.restSpotCount * 100
              + (IF route.safety.sidewalkCoverage = "continuous"
                 THEN 200 ELSE 0),
              (IF route.comfort.restSpotCount >= 2
               THEN <<"has shelter spots">> ELSE <<>>)
              \o (IF route.safety.sidewalkCoverage = "continuous"
                  THEN <<"continuous sidewalks">> ELSE <<>>))
    ELSE NoRule

\* rain or snow
rainSnowRule(route, fl) ==
    IF fl.isRaining \/ fl.isSnowing
    THEN Rule(route.comfort.restSpotCount * 100
              + (IF route.safety.sidewalkCoverage = "continuous"
                 THEN 200 ELSE 0)
              + (IF route.type = "fastest" THEN -150 ELSE 0),
              (IF route.comfort.restSpotCount >= 2
               THEN <<"has shelter spots">> ELSE <<>>)
              \o (IF route.safety.sidewalkCoverage = "continuous"
                  THEN <<"continuous sidewalks">> ELSE <<>>))
    ELSE NoRule

\* hot weather
hotRule(route, fl) ==
    IF fl.isHotWeather
    THEN Rule(route.comfort.shadePercent * 4
              + (IF route.comfort.restSpotCount >= 2 THEN 200 ELSE 0)
              + (IF route.type = "comfortable" \/ route.type = "scenic"
                 THEN 150 ELSE 0),
              (IF route.comfort.shadePercent >= 60
               THEN <<"good shade coverage">> ELSE <<>>)
              \o (IF route.comfort.restSpotCount >= 2
                  THEN <<"rest stops available">> ELSE <<>>))
    ELSE NoRule

\* cold weather
coldRule(route, fl) ==
    IF fl.isColdWeather
    THEN Rule((IF route.type = "fastest" THEN 250 ELSE 0)
              + (IF route.type = "scenic" THEN -100 ELSE 0),
              IF route.type = "fastest"
              THEN <<"shorter exposure time">> ELSE <<>>)
    ELSE NoRule

\* windy
windRule(route, fl) ==
    IF fl.isWindy
    THEN Rule((IF route.type = "comfortable" THEN 150 ELSE 0)
              + (IF route.type = "scenic" THEN -100 ELSE 0),
              IF route.type = "comfortable"
              THEN <<"wind-protected">> ELSE <<>>)
    ELSE NoRule

\* a variant of the dark rule with the lighting branches the other way round
darkRuleSwapped(route, fl) ==
    IF fl.isDark
    THEN Rule((IF route.safety.lightingLevel = "well-lit" THEN -200
               ELSE IF route.safety.lightingLevel = "mixed" THEN 100
               ELSE 450)
              + (IF route.nightFriendly THEN 0 ELSE 300),
              (IF route.safety.lightingLevel = "well-lit"
               THEN <<"well-lit for dark hours">> ELSE <<>>)
              \o (IF route.nightFriendly
                  THEN <<"night-friendly">> ELSE <<>>))
    ELSE NoRule

\* dark hours
darkRule(route, fl) ==
    IF fl.isDark
    THEN Rule((IF route.safety.lightingLevel = "well-lit" THEN 450
               ELSE IF route.safety.lightingLevel = "mixed" THEN 100
               ELSE -200)
              + (IF route.nightFriendly THEN 300 ELSE 0),
              (IF route.safety.lightingLevel = "well-lit"
               THEN <<"well-lit for dark hours">> ELSE <<>>)
              \o (IF route.nightFriendly
                  THEN <<"night-friendly">> ELSE <<>>))
    ELSE NoRule

\* late night
lateNightRule(route, fl) ==
    IF fl.isLateNight
    THEN Rule((IF route.type = "safest" THEN 350 ELSE 0)
              + (IF route.type = "scenic" THEN -250 ELSE 0),
              IF route.type = "safest"
              THEN <<"safest for late night">> ELSE <<>>)
    ELSE NoRule

\* rush hour
rushHourRule(route, fl) ==
    IF fl.isRushHour
    THEN Rule((IF route.safety.sidewalkCoverage = "continuous"
               THEN 200 ELSE 0)
              + (IF route.safety.crossingCount > 4 THEN -100 ELSE 0),
              IF route.safety.sidewalkCoverage = "continuous"
              THEN <<"wide sidewalks for rush hour">> ELSE <<>>)
    ELSE NoRule

\* midday sun
middayRule(route, fl, w) ==
    IF fl.isMidDay /\ w # Null /\ w.current.temp > 75
    THEN Rule(route.comfort.shadePercent * 3,
              IF route.comfort.shadePercent >= 60
              THEN <<"shaded for midday sun">> ELSE <<>>)
    ELSE NoRule

\* weekend
weekendRule(route, fl) ==
    IF fl.isWeekend /\ ~fl.isDark /\ ~fl.isRaining /\ ~fl.isColdWeather
       /\ (route.type = "scenic" \/ route.type = "comfortable")
    THEN Rule(150, <<"nice for weekend stroll">>)
    ELSE NoRule

\* safety bonuses (always apply)
safetyBonus(route) ==
    Rule((IF route.safety.sidewalkCoverage = "continuous" THEN 150 ELSE 0)
         + (IF route.safety.crossingCount <= 3 THEN 100 ELSE 0),
         IF route.safety.crossingCount <= 3
         THEN <<"fewer crossings">> ELSE <<>>)

\* slight penalty for very long routes:
\* route.duration > avgDuration * 1.3, avgDuration = sum / length
lengthPenalty(route, routeList) ==
    LET total == SumSeq([i \in 1..Len(routeList) |-> routeList[i].duration])
    IN  IF route.duration * Len(routeList) * 10 > total * 13
        THEN Rule(-100, <<>>)
        ELSE NoRule

\* the rules in the order the callback of routes.map applies them
rulesFor(route, routeList, pref, w, fl) ==
    << preferenceRule(route, pref), rainSnowRule(route, fl),
       hotRule(route, fl), coldRule(route, fl), windRule(route, fl),
       darkRule(route, fl), lateNightRule(route, fl),
       rushHourRule(route, fl), middayRule(route, fl, w),
       weekendRule(route, fl), safetyBonus(route),
       lengthPenalty(route, routeList) >>

RECURSIVE ConcatAll(_)
ConcatAll(ss) == IF ss = <<>> THEN <<>> ELSE Head(ss) \o ConcatAll(Tail(ss))

\* the callback of routes.map: { route, score, reasons }
scoreRoute(route, routeList, pref, w, fl) ==
    LET rules == rulesFor(route, routeList, pref, w, fl)
    IN  [route |-> route,
         score |-> SumSeq([k \in 1..Len(rules) |-> rules[k].score]),
         reasons |-> ConcatAll([k \in 1..Len(rules) |-> rules[k].reasons])]

\* a variant of the insertion that puts x before the entries of equal score
\* (a sort that is not stable)
insertByScoreUnstable(sorted, x) ==
    LET k == Cardinality({i \in 1..Len(sorted) : sorted[i].score > x.score})
    IN  SubSeq(sorted, 1, k) \o <<x>> \o SubSeq(sorted, k + 1, Len(sorted))

\* where the sort puts x among entries already sorted: behind every entry
\* that does not score less (the comparator is b.score - a.score and
\* Array.prototype.sort is stable)
insertByScore(sorted, x) ==
    LET k == Cardinality({i \in 1..Len(sorted) : sorted[i].score >= x.score})
    IN  SubSeq(sorted, 1, k) \o <<x>> \o SubSeq(sorted, k + 1, Len(sorted))

\* scoredRoutes.sort((a, b) => b.score - a.score)
RECURSIVE sortByScore(_)
sortByScore(scored) ==
    IF scored = <<>> THEN <<>>
    ELSE insertByScore(sortByScore(SubSeq(scored, 1, Len(scored) - 1)),
                       scored[Len(scored)])

\* scoredRoutes after the sort
rankedRoutes(routeList, pref, w, al, tc, month) ==
    LET fl == recommendationFlags(w, al, tc, month)
    IN  sortByScore([i \in 1..Len(routeList) |->
                        scoreRoute(routeList[i], routeList, pref, w, fl)])

\* a reason string: its fixed text, and the temperature, display time or
\* alert title the template puts in it (an empty sequence where the
\* template has none, or where weather?.current.temp is undefined)
Reason(text, temp, time, alert) ==
    [text |-> text, temp |-> temp, time |-> time, alert |-> alert]
PlainReason(text) == Reason(text, <<>>, <<>>, <<>>)
TempOf(w) == IF w # Null THEN <<w.current.temp>> ELSE <<>>

\* a variant of the cascade that tests rush hour before darkness
recommendationReasonRushHourFirst(best, fl, w, al, tc) ==
    IF fl.isRaining THEN PlainReason("Best for rainy weather")
    ELSE IF fl.isSnowing THEN PlainReason("Safest in snow")
    ELSE IF fl.isHotWeather /\ Includes(best.reasons, "good shade coverage")
    THEN Reason("Best for heat", TempOf(w), <<>>, <<>>)
    ELSE IF fl.isColdWeather
            /\ Includes(best.reasons, "shorter exposure time")
    THEN Reason("Quickest in cold", TempOf(w), <<>>, <<>>)
    ELSE IF fl.isWindy /\ Includes(best.reasons, "wind-protected")
    THEN PlainReason("Wind-protected route")
    ELSE IF fl.isRushHour
            /\ Includes(best.reasons, "wide sidewalks for rush hour")
    THEN PlainReason("Best for rush hour")
    ELSE IF fl.isDark /\ Includes(best.reasons, "well-lit for dark hours")
    THEN Reason("Best for walk at", <<>>, <<tc.displayTime>>, <<>>)
    ELSE IF fl.isLateNight
            /\ Includes(best.reasons, "safest for late night")
    THEN PlainReason("Safest for late night")
    ELSE IF fl.isWeekend /\ Includes(best.reasons, "nice for weekend stroll")
    THEN PlainReason("Great for weekend walk")
    ELSE IF fl.hasWeatherAlerts
    THEN Reason("Alert", <<>>, <<>>, <<al[1].title>>)
    ELSE IF Includes(best.reasons, "matches your preference")
    THEN PlainReason("Recommended for you")
    ELSE IF w # Null /\ w.current.condition = "clear"
            /\ w.current.temp >= 60 /\ w.current.temp <= 80
    THEN PlainReason("Great walking weather")
    ELSE PlainReason("Best overall")

\* the if / else-if cascade that chooses the reason
recommendationReason(best, fl, w, al, tc) ==
    IF fl.isRaining THEN PlainReason("Best for rainy weather")
    ELSE IF fl.isSnowing THEN PlainReason("Safest in snow")
    ELSE IF fl.isHotWeather /\ Includes(best.reasons, "good shade coverage")
    THEN Reason("Best for heat", TempOf(w), <<>>, <<>>)
    ELSE IF fl.isColdWeather
            /\ Includes(best.reasons, "shorter exposure time")
    THEN Reason("Quickest in cold", TempOf(w), <<>>, <<>>)
    ELSE IF fl.isWindy /\ Includes(best.reasons, "wind-protected")
    THEN PlainReason("Wind-protected route")
    ELSE IF fl.isDark /\ Includes(best.reasons, "well-lit for dark hours")
    THEN Reason("Best for walk at", <<>>, <<tc.displayTime>>, <<>>)
    ELSE IF fl.isLateNight
            /\ Includes(best.reasons, "safest for late night")
    THEN PlainReason("Safest for late night")
    ELSE IF fl.isRushHour
            /\ Includes(best.reasons, "wide sidewalks for rush hour")
    THEN PlainReason("Best for rush hour")
    ELSE IF fl.isWeekend /\ Includes(best.reasons, "nice for weekend stroll")
    THEN PlainReason("Great for weekend walk")
    ELSE IF fl.hasWeatherAlerts
    THEN Reason("Alert", <<>>, <<>>, <<al[1].title>>)
    ELSE IF Includes(best.reasons, "matches your preference")
    THEN PlainReason("Recommended for you")
    ELSE IF w # Null /\ w.current.condition = "clear"
            /\ w.current.temp >= 60 /\ w.current.temp <= 80
    THEN PlainReason("Great walking weather")
    ELSE PlainReason("Best overall")

\* a variant of getSmartRecommendation that reports the type of the first
\* route of the input in place of the type of the best one
getSmartRecommendationTypeOfFirst(routeList, pref, w, al, tc, month) ==
    IF Len(routeList) = 0 THEN Null
    ELSE LET fl == recommendationFlags(w, al, tc, month)
             best == rankedRoutes(routeList, pref, w, al, tc, month)[1]
         IN  [routeId |-> best.route.id,
              routeType |-> routeList[1].type,
              reason |-> recommendationReason(best, fl, w, al, tc)]

\* getSmartRecommendation() in a render with the given routes, preference,
\* weather, alerts and time context, when the clock reads month `month`
getSmartRecommendation(routeList, pref, w, al, tc, month) ==
    IF Len(routeList) = 0 THEN Null
    ELSE LET fl == recommendationFlags(w, al, tc, month)
             best == rankedRoutes(routeList, pref, w, al, tc, month)[1]
         IN  [routeId |-> best.route.id,
              routeType |-> best.route.type,
              reason |-> recommendationReason(best, fl, w, al, tc)]

(***************************************************************************)
(* The route list (RoutesList): the preference and the recommendation of   *)
(* the last render.                                                        *)
(***************************************************************************)
\* localStorage.getItem gives null for a missing item
NoStored == "null"
Preferences == {"safe", "fast", "comfy"}

\* (localStorage.getItem('routePreference') as ...) || 'safe'
readPreference(stored) ==
    IF stored = NoStored \/ stored = "" THEN "safe" ELSE stored

\* what getSmartRecommendation reads in a render
recommendationInputs ==
    <<routes, routePreference, weather, alerts, timeContext, now>>

\* the render of RoutesList on the state a step leaves; on the inputs of the
\* render before, it gives the recommendation of the render before
render ==
    smartRecommendation' =
        IF recommendationInputs' = recommendationInputs
        THEN smartRecommendation
        ELSE getSmartRecommendation(routes', routePreference', weather',
                                    alerts', timeContext', now'.month)

\* onClick of a preference button: setRoutePreference, localStorage.setItem,
\* and the render that follows
choosePreference(pref) ==
    /\ routePreference' = pref
    /\ storedPreference' = pref
    /\ UNCHANGED <<routeVars, weatherVars>>
    /\ UNCHANGED <<searchVars, timerVars>>
    /\ render

\* the 60 s interval of WeatherProvider fires when the clock reads `clock`:
\* setCurrentTime(new Date()), the timeContext memo, and the render that
\* follows
IntervalTick(clock) ==
    /\ now' = clock
    /\ timeContext' = calculateTimeContext(clock, sunTimes)
    /\ UNCHANGED <<weather, alerts, sunTimes, weatherIsLoading, weatherError,
                   weatherInflight, apiKey>>
    /\ UNCHANGED <<routeVars, routePreference, storedPreference>>
    /\ UNCHANGED <<searchVars, timerVars>>
    /\ render

(***************************************************************************)
(* The start field (LocationSearch with onChange={setOrigin}).  A text is  *)
(* a string; a location is known by its name, so location.name is the      *)
(* location itself.  The destination field has the same code and is left   *)
(* as it is.                                                               *)
(***************************************************************************)
\* the texts the user types
Queries == {"w", "wa", "me", "nyc"}

\* String.prototype.length over the texts of the model
TextLength(text) ==
    CASE text = "" -> 0
      [] text = "w" -> 1
      [] text = "wa" -> 2
      [] text = "me" -> 2
      [] text = "nyc" -> 3
      [] text = "6 MetroTech Center" -> 18
      [] text = "Washington Square" -> 17

\* value?.name || ''
nameOf(value) == IF value = NoLocation THEN "" ELSE value

\* no timeout pending, and the timeout that will search for a text
NoTimer == <<>>
TimerFor(text) == <<text>>

\* data.features of the geocoding answer to a text, in the provider's order
GeocodeAnswers(text) ==
    CASE text = "wa" -> <<"Washington Square">>
      [] text = "me" -> <<"6 MetroTech Center">>
      [] text = "nyc" -> <<"Washington Square", "6 MetroTech Center">>
      [] OTHER -> <<>>

\* results.sort((a, b) => a.distance - b.distance): the sort is stable and
\* the distance table has two values, so the features at distance 0 from
\* the proximity point come first and the order is kept otherwise
nearestFirst(features, proximity) ==
    SelectSeq(features, LAMBDA l : haversine(proximity, l) = 0)
    \o SelectSeq(features, LAMBDA l : haversine(proximity, l) # 0)

\* the value effect and the search effect of the field, run after a render
\* in which value, isUserTyping, query or searchLocation (that is, origin)
\* changed, and the render that follows setQuery: the field is left with
\* value `value`, isUserTyping `typing` and the text `text` by the handler
locationSearchEffects(value, typing, text) ==
    /\ query' = IF typing THEN text ELSE nameOf(value)
    /\ IF typing /\ TextLength(text) >= 2
       THEN /\ isSearching' = TRUE
            /\ searchTimer' = TimerFor(text)
            /\ UNCHANGED results
       ELSE /\ searchTimer' = NoTimer
            /\ results' = <<>>
            /\ UNCHANGED isSearching

(***************************************************************************)
(* The state machine.  React 18 (createRoot) batches the state updates a   *)
(* handler makes between two awaits into one render, so each action is one *)
(* render-to-render step: a handler, the effects its state change          *)
(* triggers, and the render of the route list that follows.                *)
(***************************************************************************)
\* a variant of fetchRoutes without the guard on the end points
fetchRoutesCallUnguarded(o, d, mode) ==
    /\ isLoading' = TRUE
    /\ error' = NoError
    /\ fetchCount' = fetchCount + 1
    /\ inflight' = inflight \cup
          {[id |-> fetchCount + 1, origin |-> o, destination |-> d,
            mode |-> mode]}

\* fetchRoutes(mode) up to `await fetch(url)`, called with origin o and
\* destination d in the closure
fetchRoutesCall(o, d, mode) ==
    IF o = NoLocation \/ d = NoLocation
    THEN /\ error' = "Please set both origin and destination"
         /\ UNCHANGED <<isLoading, inflight, fetchCount>>
    ELSE /\ isLoading' = TRUE
         /\ error' = NoError
         /\ fetchCount' = fetchCount + 1
         /\ inflight' = inflight \cup
                {[id |-> fetchCount + 1, origin |-> o, destination |-> d,
                  mode |-> mode]}

\* the effect of RoutesList keyed by the four coordinates: runs after a
\* render in which origin or destination changed
fetchEffect(o, d) ==
    IF <<o, d>> # <<origin, destination>> /\ o # NoLocation /\ d # NoLocation
    THEN fetchRoutesCall(o, d, transportMode)
    ELSE UNCHANGED <<isLoading, error, inflight, fetchCount>>

\* fetchWeather(lat, lng) up to its first await: the mock branch of a build
\* without a credential, or the start of the live fetch
fetchWeather(location) ==
    IF apiKey = ""
    THEN /\ weather' = mockWeather
         /\ alerts' = generateAlerts(mockWeather)
         /\ UNCHANGED <<sunTimes, weatherIsLoading, weatherError,
                        weatherInflight>>
    ELSE /\ weatherIsLoading' = TRUE
         /\ weatherError' = NoError
         /\ weatherInflight' =
               Append(weatherInflight,
                      [location |-> location, stage |-> "onecall"])
         /\ UNCHANGED <<weather, alerts, sunTimes>>

\* the effect of WeatherProvider keyed by origin and destination: runs after
\* a render in which one of them changed, for origin || destination
weatherEffect(o, d) ==
    LET location == IF o # NoLocation THEN o ELSE d
    IN  IF <<o, d>> # <<origin, destination>> /\ location # NoLocation
        THEN fetchWeather(location)
        ELSE UNCHANGED <<weather, alerts, sunTimes, weatherIsLoading,
                         weatherError, weatherInflight>>

\* room for one more fetch of either kind
CanFetch ==
    /\ fetchCount < MaxFetches
    /\ apiKey = "" \/ Len(weatherInflight) < MaxPending

\* setOrigin called from outside the typing of the start field: a
\* suggestion chosen or the field cleared while no search is going on, or
\* the device location found on mount; the effects of the route list, of
\* the weather provider and of the start field follow
SetOrigin(l) ==
    /\ l # origin
    /\ CanFetch
    /\ origin' = l
    /\ fetchEffect(l, destination)
    /\ weatherEffect(l, destination)
    /\ locationSearchEffects(l, isUserTyping, query)
    /\ UNCHANGED <<destination, routes, selectedRoute, transportMode>>
    /\ UNCHANGED <<routePreference, storedPreference, apiKey, timeContext,
                   now>>
    /\ UNCHANGED <<isUserTyping, isOpen, searchInflight, searchCount,
                   timerVars>>
    /\ render

\* LocationSearch onChange={setDestination}
SetDestination(l) ==
    /\ l # destination
    /\ CanFetch
    /\ destination' = l
    /\ fetchEffect(origin, l)
    /\ weatherEffect(origin, l)
    /\ UNCHANGED <<origin, routes, selectedRoute, transportMode>>
    /\ UNCHANGED <<routePreference, storedPreference, apiKey, timeContext,
                   now>>
    /\ UNCHANGED <<searchVars, timerVars>>
    /\ render

\* the swap button of RoutesList
SwapLocations ==
    /\ origin # destination
    /\ CanFetch
    /\ origin' = destination
    /\ destination' = origin
    /\ fetchEffect(destination, origin)
    /\ weatherEffect(destination, origin)
    /\ locationSearchEffects(destination, isUserTyping, query)
    /\ UNCHANGED <<routes, selectedRoute, transportMode>>
    /\ UNCHANGED <<routePreference, storedPreference, apiKey, timeContext,
                   now>>
    /\ UNCHANGED <<isUserTyping, isOpen, searchInflight, searchCount,
                   timerVars>>
    /\ render

\* fetchRoutes(mode) called through the context by one of its consumers,
\* with or without a mode: activeMode = mode || transportMode
fetchRoutes(mode) ==
    /\ fetchCount < MaxFetches
    /\ fetchRoutesCall(origin, destination,
                       IF mode = "undefined" THEN transportMode ELSE mode)
    /\ UNCHANGED <<origin, destination, routes, selectedRoute, transportMode>>
    /\ UNCHANGED <<routePreference, storedPreference, weatherVars>>
    /\ UNCHANGED <<searchVars, timerVars>>
    /\ render

\* handleModeChange(mode) of RoutesList
handleModeChange(mode) ==
    /\ fetchCount < MaxFetches
    /\ transportMode' = mode
    /\ IF origin # NoLocation /\ destination # NoLocation
       THEN fetchRoutesCall(origin, destination, mode)
       ELSE UNCHANGED <<isLoading, error, inflight, fetchCount>>
    /\ UNCHANGED <<origin, destination, routes, selectedRoute>>
    /\ UNCHANGED <<routePreference, storedPreference, weatherVars>>
    /\ UNCHANGED <<searchVars, timerVars>>
    /\ render

\* what a fetchRoutes call stores when its await ends: setRoutes,
\* setSelectedRoute, the error state it leaves, and setIsLoading(false) in
\* the finally block
fetchRoutesSettle(f, newRoutes, newError) ==
    /\ routes' = newRoutes
    /\ selectedRoute' = defaultSelection(newRoutes)
    /\ error' = newError
    /\ isLoading' = FALSE
    /\ inflight' = inflight \ {f}
    /\ UNCHANGED <<origin, destination, transportMode, fetchCount>>
    /\ UNCHANGED <<routePreference, storedPreference, weatherVars>>
    /\ UNCHANGED <<searchVars, timerVars>>
    /\ render

\* the await of call f ends with an OK answer that holds raw paths
FetchSucceed(f, rawRoutes) ==
    /\ f \in inflight
    /\ fetchRoutesSettle(f, transformedRoutes(rawRoutes, f), NoError)

\* a variant of the catch block that reports the failure as well
FetchFailReported(f) ==
    /\ f \in inflight
    /\ fetchRoutesSettle(f, fallbackRoutes(f), "Failed to fetch routes")

\* the await of call f ends with a network error, a non-OK answer or an
\* answer without routes: the catch block, which sets no error
FetchFail(f) ==
    /\ f \in inflight
    /\ fetchRoutesSettle(f, fallbackRoutes(f), error)

\* App.handleRouteSelect(routeType): routes.find, then selectRoute
handleRouteSelect(routeType) ==
    LET found == FirstOf(routes,
                        {i \in 1..Len(routes) : routes[i].type = routeType})
    IN  /\ found # {}
        /\ selectedRoute' = CHOOSE r \in found : TRUE
        /\ UNCHANGED <<origin, destination, routes, transportMode,
                       isLoading, error, inflight, fetchCount>>
        /\ UNCHANGED <<routePreference, storedPreference, weatherVars>>
        /\ UNCHANGED <<searchVars, timerVars>>
        /\ render

\* the mode chips of RoutePreview: selectRoute(route) for a listed route
selectRoute(i) ==
    /\ i \in 1..Len(routes)
    /\ selectedRoute # Null
    /\ selectedRoute' = routes[i]
    /\ UNCHANGED <<origin, destination, routes, transportMode,
                   isLoading, error, inflight, fetchCount>>
    /\ UNCHANGED <<routePreference, storedPreference, weatherVars>>
    /\ UNCHANGED <<searchVars, timerVars>>
    /\ render

\* a variant of clearAll that keeps the selection
clearAllKeepsSelection ==
    /\ origin' = NoLocation
    /\ destination' = NoLocation
    /\ routes' = <<>>
    /\ error' = NoError
    /\ IF origin # NoLocation
       THEN locationSearchEffects(NoLocation, isUserTyping, query)
       ELSE UNCHANGED <<query, results, isSearching, searchTimer>>
    /\ UNCHANGED <<selectedRoute, transportMode, isLoading, inflight,
                   fetchCount>>
    /\ UNCHANGED <<routePreference, storedPreference, weatherVars>>
    /\ UNCHANGED <<isUserTyping, isOpen, searchInflight, searchCount,
                   timerVars>>
    /\ render

\* clearAll(); the effects find no location to fetch for, and the effects
\* of the start field run when the origin changed
clearAll ==
    /\ origin' = NoLocation
    /\ destination' = NoLocation
    /\ routes' = <<>>
    /\ selectedRoute' = Null
    /\ error' = NoError
    /\ IF origin # NoLocation
       THEN locationSearchEffects(NoLocation, isUserTyping, query)
       ELSE UNCHANGED <<query, results, isSearching, searchTimer>>
    /\ UNCHANGED <<transportMode, isLoading, inflight, fetchCount>>
    /\ UNCHANGED <<routePreference, storedPreference, weatherVars>>
    /\ UNCHANGED <<isUserTyping, isOpen, searchInflight, searchCount,
                   timerVars>>
    /\ render

\* onChange of the input of the start field: the user makes the text `text`
TypeQuery(text) ==
    /\ text # query
    /\ isUserTyping' = TRUE
    /\ isOpen' = TRUE
    /\ locationSearchEffects(origin, TRUE, text)
    /\ UNCHANGED <<searchInflight, searchCount>>
    /\ UNCHANGED <<routeVars, listVars, weatherVars, timerVars>>

\* the 300 ms timeout of the search effect fires: searchLocation(query) is
\* called and suspends at `await fetch`, with the origin of its closure as
\* the proximity point
SearchTimerFires ==
    /\ searchTimer # NoTimer
    /\ searchCount < MaxSearches
    /\ searchTimer' = NoTimer
    /\ searchCount' = searchCount + 1
    /\ searchInflight' = searchInflight \cup
          {[id |-> searchCount + 1, query |-> searchTimer[1],
            proximity |-> origin]}
    /\ UNCHANGED <<query, results, isUserTyping, isOpen, isSearching>>
    /\ UNCHANGED <<routeVars, listVars, weatherVars, timerVars>>

\* the await of the timeout callback of call s ends with `locations`:
\* setResults(locations), setIsSearching(false)
searchSettles(s, locations) ==
    /\ s \in searchInflight
    /\ results' = locations
    /\ isSearching' = FALSE
    /\ searchInflight' = searchInflight \ {s}
    /\ UNCHANGED <<query, isUserTyping, isOpen, searchTimer, searchCount>>
    /\ UNCHANGED <<routeVars, listVars, weatherVars, timerVars>>

\* the geocoding request of call s is answered OK
SearchAnswered(s) ==
    searchSettles(s, nearestFirst(GeocodeAnswers(s.query), s.proximity))

\* the geocoding request of call s fails: searchLocation returns []
SearchFails(s) == searchSettles(s, <<>>)

\* handleSelect(results[k]) of the start field: onChange(location),
\* setQuery, setIsUserTyping(false), setIsOpen(false), setResults([]); the
\* weather effect runs for the new location object, and the effects of the
\* route list and of the field follow
handleSelect(k) ==
    /\ isOpen
    /\ k \in 1..Len(results)
    /\ CanFetch
    /\ origin' = results[k]
    /\ isUserTyping' = FALSE
    /\ isOpen' = FALSE
    /\ locationSearchEffects(results[k], FALSE, results[k])
    /\ fetchEffect(results[k], destination)
    /\ fetchWeather(results[k])
    /\ UNCHANGED <<destination, routes, selectedRoute, transportMode>>
    /\ UNCHANGED <<routePreference, storedPreference, apiKey, timeContext,
                   now>>
    /\ UNCHANGED <<searchInflight, searchCount, timerVars>>
    /\ render

\* handleClear() of the start field, whose button shows when the field has
\* a text and is not searching: onChange(null), setQuery(''),
\* setIsUserTyping(false), setResults([]), and the effects that follow
handleClear ==
    /\ ~isSearching
    /\ query # ""
    /\ CanFetch
    /\ origin' = NoLocation
    /\ isUserTyping' = FALSE
    /\ locationSearchEffects(NoLocation, FALSE, "")
    /\ fetchEffect(NoLocation, destination)
    /\ weatherEffect(NoLocation, destination)
    /\ UNCHANGED <<destination, routes, selectedRoute, transportMode>>
    /\ UNCHANGED <<routePreference, storedPreference, apiKey, timeContext,
                   now>>
    /\ UNCHANGED <<isOpen, searchInflight, searchCount, timerVars>>
    /\ render

\* a variant of the teardown whose cleanup does not clear the interval
UnmountKeepsInterval ==
    /\ mounted
    /\ mounted' = FALSE
    /\ searchTimer' = NoTimer
    /\ UNCHANGED <<timers, interval, timerCount>>
    /\ UNCHANGED <<routeVars, listVars, weatherVars>>
    /\ UNCHANGED <<query, results, isUserTyping, isOpen, isSearching,
                   searchInflight, searchCount>>

\* the tree is unmounted (the page is left): the cleanups run,
\* clearInterval(interval) of WeatherProvider and clearTimeout of the field.
\* The state of the components is gone with them; the variables keep their
\* last values until the next mount replaces them, and the awaits that end
\* meanwhile set nothing.
Unmount ==
    /\ mounted
    /\ mounted' = FALSE
    /\ timers' = timers \ {interval}
    /\ searchTimer' = NoTimer
    /\ UNCHANGED <<interval, timerCount>>
    /\ UNCHANGED <<routeVars, listVars, weatherVars>>
    /\ UNCHANGED <<query, results, isUserTyping, isOpen, isSearching,
                   searchInflight, searchCount>>

\* the tree is mounted anew (a new session): every useState takes its
\* initial value, the preference is read from localStorage, and the mount
\* effects run: setInterval, and fetchWeather for the default destination
Mount ==
    /\ ~mounted
    /\ timerCount < MaxMounts
    /\ mounted' = TRUE
    /\ timerCount' = timerCount + 1
    /\ interval' = timerCount + 1
    /\ timers' = timers \cup {timerCount + 1}
    /\ origin' = NoLocation
    /\ destination' = DEFAULT_DESTINATION
    /\ routes' = <<>>
    /\ selectedRoute' = Null
    /\ transportMode' = "walking"
    /\ isLoading' = FALSE
    /\ error' = NoError
    /\ inflight' = {}
    /\ weather' = IF apiKey = "" THEN mockWeather ELSE Null
    /\ alerts' = IF apiKey = "" THEN generateAlerts(mockWeather) ELSE <<>>
    /\ sunTimes' = Null
    /\ weatherIsLoading' = (apiKey # "")
    /\ weatherError' = NoError
    /\ weatherInflight' =
          IF apiKey = "" THEN <<>>
          ELSE <<[location |-> DEFAULT_DESTINATION, stage |-> "onecall"]>>
    /\ timeContext' = calculateTimeContext(now, Null)
    /\ routePreference' = readPreference(storedPreference)
    /\ query' = ""
    /\ results' = <<>>
    /\ isUserTyping' = FALSE
    /\ isOpen' = FALSE
    /\ isSearching' = FALSE
    /\ searchTimer' = NoTimer
    /\ searchInflight' = {}
    /\ UNCHANGED <<fetchCount, searchCount, storedPreference, apiKey, now>>
    /\ render

\* React.StrictMode runs the effects of the mounted tree once more: their
\* cleanups (clearInterval, clearTimeout), then the effects again
\* (setInterval, the weather fetch, the route fetch, the search effect);
\* the state is kept
StrictRemount ==
    /\ mounted
    /\ timerCount < MaxMounts
    /\ CanFetch
    /\ timerCount' = timerCount + 1
    /\ interval' = timerCount + 1
    /\ timers' = (timers \ {interval}) \cup {timerCount + 1}
    /\ IF origin # NoLocation \/ destination # NoLocation
       THEN fetchWeather(IF origin # NoLocation THEN origin ELSE destination)
       ELSE UNCHANGED <<weather, alerts, sunTimes, weatherIsLoading,
                        weatherError, weatherInflight>>
    /\ IF origin # NoLocation /\ destination # NoLocation
       THEN fetchRoutesCall(origin, destination, transportMode)
       ELSE UNCHANGED <<isLoading, error, inflight, fetchCount>>
    /\ locationSearchEffects(origin, isUserTyping, query)
    /\ UNCHANGED <<origin, destination, routes, selectedRoute, transportMode>>
    /\ UNCHANGED <<routePreference, storedPreference, apiKey, timeContext,
                   now>>
    /\ UNCHANGED <<mounted, isUserTyping, isOpen, searchInflight,
                   searchCount>>
    /\ render

\* a sequence without its i-th element
Remove(s, i) == SubSeq(s, 1, i - 1) \o SubSeq(s, i + 1, Len(s))

\* the catch and finally blocks of the i-th pending fetchWeather call
fetchWeatherCatch(i) ==
    /\ weatherError' = "Failed to fetch weather data"
    /\ weatherIsLoading' = FALSE
    /\ weatherInflight' = Remove(weatherInflight, i)

\* the One Call request of the i-th pending call is answered OK with `data`:
\* the sun times are set first, then the weather state is built, which
\* throws on an answer without the hourly list
OneCallAnswered(i, data) ==
    /\ i \in 1..Len(weatherInflight)
    /\ weatherInflight[i].stage = "onecall"
    /\ sunTimes' = sunTimesAfter(data.sunrise, data.sunset)
    /\ timeContext' = calculateTimeContext(now, sunTimes')
    /\ IF data.hourly = Null
       THEN /\ fetchWeatherCatch(i)
            /\ UNCHANGED <<weather, alerts>>
       ELSE /\ weather' = weatherFromOneCall(data)
            /\ alerts' = generateAlerts(weather')
            /\ weatherIsLoading' = FALSE
            /\ weatherInflight' = Remove(weatherInflight, i)
            /\ UNCHANGED weatherError
    /\ UNCHANGED <<routeVars, routePreference, storedPreference, apiKey, now>>
    /\ UNCHANGED <<searchVars, timerVars>>
    /\ render

\* the One Call request of the i-th pending call is answered not OK: the
\* call goes on to the basic API
OneCallRefused(i) ==
    /\ i \in 1..Len(weatherInflight)
    /\ weatherInflight[i].stage = "onecall"
    /\ weatherInflight' =
          [weatherInflight EXCEPT ![i].stage = "current"]
    /\ UNCHANGED <<weather, alerts, sunTimes, weatherIsLoading, weatherError,
                   apiKey, timeContext, now>>
    /\ UNCHANGED <<routeVars, listVars, searchVars, timerVars>>

\* the basic API answers the i-th pending call OK with `currentData`
CurrentAnswered(i, currentData) ==
    /\ i \in 1..Len(weatherInflight)
    /\ weatherInflight[i].stage = "current"
    /\ weather' = weatherFromCurrent(currentData)
    /\ alerts' = generateAlerts(weather')
    /\ sunTimes' = sunTimesAfter(currentData.sunrise, currentData.sunset)
    /\ timeContext' = calculateTimeContext(now, sunTimes')
    /\ weatherIsLoading' = FALSE
    /\ weatherInflight' = Remove(weatherInflight, i)
    /\ UNCHANGED weatherError
    /\ UNCHANGED <<routeVars, routePreference, storedPreference, apiKey, now>>
    /\ UNCHANGED <<searchVars, timerVars>>
    /\ render

\* a request of the i-th pending call fails on the network, or the basic
\* API answers not OK
WeatherFetchFails(i) ==
    /\ i \in 1..Len(weatherInflight)
    /\ fetchWeatherCatch(i)
    /\ UNCHANGED <<weather, alerts, sunTimes, apiKey, timeContext, now>>
    /\ UNCHANGED <<routeVars, routePreference, storedPreference>>
    /\ UNCHANGED <<searchVars, timerVars>>
    /\ render

(***************************************************************************)
(* Specification of the route selection state, for the build without a     *)
(* weather credential.  The preference and the clock stay as they are.     *)
(***************************************************************************)
\* a weekday morning in January
StartClock == [hour |-> 10, minute |-> 0, day |-> 1, month |-> 0]

\* the useState initial values of RouteProvider
InitRouteState ==
    /\ origin = NoLocation
    /\ destination = DEFAULT_DESTINATION
    /\ routes = <<>>
    /\ selectedRoute = Null
    /\ transportMode = "walking"
    /\ isLoading = FALSE
    /\ error = NoError
    /\ inflight = {}
    /\ fetchCount = 0

\* WeatherProvider after its mount effect, which fetches the weather of the
\* default destination, in a build whose credential is `key`
InitWeatherState(key) ==
    /\ apiKey = key
    /\ weather = IF key = "" THEN mockWeather ELSE Null
    /\ alerts = IF key = "" THEN generateAlerts(mockWeather) ELSE <<>>
    /\ sunTimes = Null
    /\ weatherIsLoading = (key # "")
    /\ weatherError = NoError
    /\ weatherInflight =
          IF key = "" THEN <<>>
          ELSE <<[location |-> DEFAULT_DESTINATION, stage |-> "onecall"]>>
    /\ now = StartClock
    /\ timeContext = calculateTimeContext(StartClock, Null)

\* the useState initial value of RoutesList with nothing in localStorage,
\* and the recommendation of a render without routes
InitListState ==
    /\ storedPreference = NoStored
    /\ routePreference = readPreference(NoStored)
    /\ smartRecommendation = Null

\* the useState initial values of the start field, for the origin it is
\* mounted with
InitSearchState ==
    /\ query = nameOf(origin)
    /\ results = <<>>
    /\ isUserTyping = FALSE
    /\ isOpen = FALSE
    /\ isSearching = FALSE
    /\ searchTimer = NoTimer
    /\ searchInflight = {}
    /\ searchCount = 0

\* the tree after its mount: the interval effect of WeatherProvider has run
InitTimerState ==
    /\ mounted = TRUE
    /\ timers = {1}
    /\ interval = 1
    /\ timerCount = 1

\* OPENWEATHER_API_KEY as the source has it
OPENWEATHER_API_KEY == ""

Init ==
    /\ InitRouteState /\ InitWeatherState(OPENWEATHER_API_KEY) /\ InitListState
    /\ InitSearchState /\ InitTimerState

Next ==
    \/ \E l \in Locations \cup {NoLocation} : SetOrigin(l)
    \/ \E l \in Locations \cup {NoLocation} : SetDestination(l)
    \/ SwapLocations
    \/ \E mode \in TransportModes : handleModeChange(mode)
    \/ \E f \in inflight : \E rawRoutes \in RouteAnswers :
          FetchSucceed(f, rawRoutes)
    \/ \E f \in inflight : FetchFail(f)
    \/ \E t \in {types[k] : k \in 1..Len(types)} : handleRouteSelect(t)
    \/ \E i \in 1..Len(routes) : selectRoute(i)
    \/ clearAll

Spec == Init /\ [][Next]_vars

(***************************************************************************)
(* Specification of the weather state, for builds with and without a       *)
(* weather credential: the user moves the end points and the weather       *)
(* provider answers; the routing provider does not answer.                 *)
(***************************************************************************)
InitWeather ==
    /\ InitRouteState
    /\ \E key \in {OPENWEATHER_API_KEY, "configured"} : InitWeatherState(key)
    /\ InitListState
    /\ InitSearchState /\ InitTimerState

NextWeather ==
    \/ \E l \in Locations \cup {NoLocation} : SetOrigin(l)
    \/ \E l \in Locations \cup {NoLocation} : SetDestination(l)
    \/ SwapLocations
    \/ clearAll
    \/ \E i \in 1..Len(weatherInflight) : \E k \in 1..Len(OneCallAnswers) :
          OneCallAnswered(i, OneCallAnswers[k])
    \/ \E i \in 1..Len(weatherInflight) : OneCallRefused(i)
    \/ \E i \in 1..Len(weatherInflight) :
          \E currentData \in CurrentAnswers : CurrentAnswered(i, currentData)
    \/ \E i \in 1..Len(weatherInflight) : WeatherFetchFails(i)

SpecWeather == InitWeather /\ [][NextWeather]_vars

(***************************************************************************)
(* Specification of the route context as its consumers may drive it        *)
(* through useRoute: the setters, fetchRoutes at any time, clearAll, and   *)
(* the routing provider's answers.                                         *)
(***************************************************************************)
NextContext ==
    \/ \E l \in Locations \cup {NoLocation} : SetOrigin(l)
    \/ \E l \in Locations \cup {NoLocation} : SetDestination(l)
    \/ \E mode \in TransportModes \cup {"undefined"} : fetchRoutes(mode)
    \/ \E f \in inflight : \E rawRoutes \in RouteAnswers :
          FetchSucceed(f, rawRoutes)
    \/ \E f \in inflight : FetchFail(f)
    \/ clearAll

SpecContext == Init /\ [][NextContext]_vars

(***************************************************************************)
(* Specification of the start field: the user types, chooses suggestions   *)
(* and clears the field, and the geocoding provider answers; the routing   *)
(* provider does not answer.                                               *)
(***************************************************************************)
NextSearch ==
    \/ \E text \in Queries \cup {""} : TypeQuery(text)
    \/ SearchTimerFires
    \/ \E s \in searchInflight : SearchAnswered(s)
    \/ \E s \in searchInflight : SearchFails(s)
    \/ \E k \in 1..Len(results) : handleSelect(k)
    \/ handleClear

SpecSearch == Init /\ [][NextSearch]_vars

(***************************************************************************)
(* Specification of the sessions: the tree is mounted, unmounted and       *)
(* mounted again, with anything in localStorage at the start; while it is  *)
(* mounted the user chooses preferences and moves the destination, and the *)
(* interval fires.                                                         *)
(***************************************************************************)
\* what localStorage holds for 'routePreference' at the start
SessionStored == {NoStored, "", "safe", "fast", "comfy", "scenic"}
SessionClocks ==
    {[hour |-> h, minute |-> 0, day |-> 1, month |-> 0] : h \in {10, 11}}

InitSession ==
    /\ InitRouteState /\ InitWeatherState(OPENWEATHER_API_KEY)
    /\ storedPreference \in SessionStored
    /\ routePreference = readPreference(storedPreference)
    /\ smartRecommendation = Null
    /\ InitSearchState /\ InitTimerState

NextSession ==
    \/ Unmount
    \/ Mount
    \/ StrictRemount
    \/ mounted /\ \E pref \in Preferences : choosePreference(pref)
    \/ mounted /\ \E l \in Locations \cup {NoLocation} : SetDestination(l)
    \/ mounted /\ interval \in timers
          /\ \E clock \in SessionClocks : IntervalTick(clock)

SpecSession == InitSession /\ [][NextSession]_vars

(***************************************************************************)
(* Specifications of the recommendation: the inputs of the first render    *)
(* are drawn from bounded sets, then the user chooses preferences and the  *)
(* interval ticks.                                                         *)
(***************************************************************************)
\* a request, for route sets made outside the state machine
SomeRequest ==
    [id |-> 1, origin |-> "Washington Square",
     destination |-> DEFAULT_DESTINATION, mode |-> "walking"]

\* all sequences of length 1 to n over set S
SeqsUpTo(S, n) == UNION {[1..k -> S] : k \in 1..n}

\* a weather state with the given condition, temperature and wind, and no
\* hourly forecast (as the basic weather API gives)
Snapshot(condition, temp, windSpeed) ==
    [current |-> [temp |-> temp, feelsLike |-> temp - 2,
                  condition |-> condition, precipitation |-> 0,
                  humidity |-> 45, windSpeed |-> windSpeed, uvIndex |-> 5,
                  visibility |-> 10000],
     hourly |-> <<>>]

\* what setAlerts holds next to a weather state
alertsOf(w) == IF w = Null THEN <<>> ELSE generateAlerts(w)

\* one hour or more of every time-of-day band, with and without rush hour
BandHours == {0, 3, 5, 8, 10, 12, 15, 18, 20, 22}

\* the input sets of the general specification: answers of 1 to MaxRaw
\* paths, either all alike or each longer and with more turns than the one
\* before
RecAnswers ==
    {[i \in 1..n |-> RawPath(1000, 1400, 2)] : n \in 1..MaxRaw}
    \cup {[i \in 1..n |-> RawPath(700 * i, 900 * i, 2 * i)] : n \in 1..MaxRaw}
RecRouteSets ==
    {<<>>, fallbackRoutes(SomeRequest)}
    \cup {transformedRoutes(a, SomeRequest) : a \in RecAnswers}
RecWeathers ==
    {Null, mockWeather, Snapshot("rain", 70, 8), Snapshot("snow", 35, 8),
     Snapshot("clear", 90, 8), Snapshot("clear", 80, 20),
     Snapshot("thunderstorm", 70, 20), Snapshot("clouds", 35, 8)}
RecClocks ==
    {[hour |-> h, minute |-> 0, day |-> dm[1], month |-> dm[2]] :
        h \in {3, 8, 12, 18}, dm \in {<<1, 0>>, <<6, 6>>}}
RecSunTimes == {Null}
RecStored == {NoStored, "fast", "comfy", "scenic"}

\* the first render of the route list on the drawn inputs
InitRecommendation(routeSets, weathers, clocks, suns, stored) ==
    /\ origin = "Washington Square"
    /\ destination = DEFAULT_DESTINATION
    /\ routes \in routeSets
    /\ selectedRoute = IF routes = <<>> THEN Null ELSE defaultSelection(routes)
    /\ transportMode = "walking"
    /\ isLoading = FALSE
    /\ error = NoError
    /\ inflight = {}
    /\ fetchCount = 0
    /\ weather \in weathers
    /\ alerts = alertsOf(weather)
    /\ sunTimes \in suns
    /\ weatherIsLoading = FALSE
    /\ weatherError = NoError
    /\ weatherInflight = <<>>
    /\ apiKey \in {IF sunTimes = Null /\ (weather = Null \/ weather = mockWeather)
                   THEN "" ELSE "configured"}
    /\ now \in clocks
    /\ timeContext = calculateTimeContext(now, sunTimes)
    /\ storedPreference \in stored
    /\ routePreference = readPreference(storedPreference)
    /\ smartRecommendation =
          getSmartRecommendation(routes, routePreference, weather, alerts,
                                 timeContext, now.month)
    /\ InitSearchState /\ InitTimerState

InitRec ==
    InitRecommendation(RecRouteSets, RecWeathers, RecClocks, RecSunTimes,
                       RecStored)

NextRec ==
    \/ \E pref \in Preferences : choosePreference(pref)
    \/ \E clock \in RecClocks : IntervalTick(clock)

SpecRec == InitRec /\ [][NextRec]_vars

(***************************************************************************)
(* Scenario specifications: the first render is drawn from the route sets  *)
(* and contexts of a scenario, then the user chooses preferences.          *)
(***************************************************************************)
StaleSunTimes == [sunrise |-> 420 - 1440, sunset |-> 1020 - 1440]
PolarDaySunTimes == [sunrise |-> 0, sunset |-> 1439]

\* scenario A: three provider paths of 1000 s, 1200 s and 1150 s with any
\* turn counts, clear calm 70 degrees, darkness at every hour (sun times of
\* the day before)
ScenarioATurns == {3, 4, 5, 6}
ScenarioARouteSets ==
    {transformedRoutes(<<RawPath(1000, 1400, t[1]), RawPath(1200, 1600, t[2]),
                         RawPath(1150, 1500, t[3])>>, SomeRequest) :
        t \in ScenarioATurns \X ScenarioATurns \X ScenarioATurns}
ScenarioAClocks ==
    {[hour |-> h, minute |-> 0, day |-> d, month |-> 0] :
        h \in BandHours, d \in {1, 6}}

InitScenarioA ==
    InitRecommendation(ScenarioARouteSets, {Snapshot("clear", 70, 8)},
                       ScenarioAClocks, {StaleSunTimes}, {NoStored})

NextScenario == \E pref \in Preferences : choosePreference(pref)

SpecScenarioA == InitScenarioA /\ [][NextScenario]_vars

\* scenario B: rain, daylight at every hour (sun times of a polar day), the
\* route sets of one to three provider paths and the straight-line set
ScenarioBRouteSets ==
    {fallbackRoutes(SomeRequest)}
    \cup {transformedRoutes(a, SomeRequest) :
            a \in SeqsUpTo({RawPath(1000, 1400, 2), RawPath(2000, 2600, 6)},
                           SynthesisTarget)}
ScenarioBWeathers ==
    {Snapshot("rain", t, ws) : t \in {35, 70, 80, 90}, ws \in {8, 20}}
ScenarioBClocks ==
    {[hour |-> h, minute |-> 0, day |-> d, month |-> 0] :
        h \in {3, 8, 10, 12}, d \in {1, 6}}

InitScenarioB ==
    InitRecommendation(ScenarioBRouteSets, ScenarioBWeathers,
                       ScenarioBClocks, {PolarDaySunTimes}, {"fast"})

SpecScenarioB == InitScenarioB /\ [][NextScenario]_vars

\* the reason cascade: route sets of one and of four provider paths and the
\* straight-line set, under every kind of weather the branches tell apart,
\* with the seasonal darkness and with the sun times of a polar day, and
\* with a stored preference that matches no route type
InitCascade ==
    InitRecommendation(
       {fallbackRoutes(SomeRequest),
        transformedRoutes(<<RawPath(1000, 1400, 2)>>, SomeRequest),
        transformedRoutes([i \in 1..4 |-> RawPath(700 * i, 900 * i, 2 * i)],
                          SomeRequest)},
       {Null, mockWeather, Snapshot("rain", 70, 8), Snapshot("snow", 35, 8),
        Snapshot("clear", 90, 8), Snapshot("clear", 80, 20),
        Snapshot("clouds", 30, 8), Snapshot("clouds", 50, 8)},
       RecClocks, {Null, PolarDaySunTimes}, {NoStored, "fast", "scenic"})

SpecCascade == InitCascade /\ [][NextRec]_vars

(***************************************************************************)
(* Specification of the alert list: a build with a weather credential      *)
(* fetches the weather of the default destination on mount, and the        *)
(* provider's answer is drawn from answers that make every alert rule      *)
(* match and fail, alone and together.                                     *)
(***************************************************************************)
\* temp and feels_like of an answer, in hundredths of a kelvin: mild (70 F),
\* hot (95 F), mild but felt hot (88 F, felt 97 F), cold (20 F), and above
\* freezing but felt cold (34 F, felt 23 F)
AlertTemps ==
    {<<29426, 29315>>, <<30815, 30926>>, <<30426, 30926>>, <<26648, 26537>>,
     <<27426, 26815>>}

\* hourly lists of an answer: none, rain due in the second hour, a
\* thunderstorm due in the third hour, rain due in the third hour only
AlertHourlies ==
    {<<>>,
     [k \in 1..3 |-> HourPoint(29426, IF k = 2 THEN 501 ELSE 800,
                               IF k = 2 THEN 80 ELSE 10)],
     [k \in 1..3 |-> HourPoint(29426, IF k = 3 THEN 211 ELSE 800, 10)],
     [k \in 1..3 |-> HourPoint(29426, IF k = 3 THEN 501 ELSE 800,
                               IF k = 3 THEN 80 ELSE 10)]}

\* One Call answers over clear, rain, drizzle, snow and thunderstorm, calm
\* and windy (8 and 22 mph), with a visibility of 10 km and of 500 m
AlertAnswers ==
    {[current |-> [temp |-> t[1], feels_like |-> t[2], id |-> id,
                   rain |-> 0, snow |-> 0, humidity |-> 45,
                   wind_speed |-> wind, uvi |-> 5, visibility |-> vis],
      hourly |-> hourly, sunrise |-> 420, sunset |-> 1020] :
        t \in AlertTemps, id \in {800, 501, 301, 600, 211},
        wind \in {36, 100}, vis \in {10000, 500}, hourly \in AlertHourlies}

InitAlerts ==
    /\ InitRouteState /\ InitWeatherState("configured") /\ InitListState
    /\ InitSearchState /\ InitTimerState

NextAlerts ==
    \/ \E i \in 1..Len(weatherInflight) : \E data \in AlertAnswers :
          OneCallAnswered(i, data)
    \/ \E i \in 1..Len(weatherInflight) : OneCallRefused(i)
    \/ \E i \in 1..Len(weatherInflight) :
          \E currentData \in CurrentAnswers : CurrentAnswered(i, currentData)

SpecAlerts == InitAlerts /\ [][NextAlerts]_vars

(***************************************************************************)
(* Specification of the time of day: the first render happens at any hour  *)
(* of a Monday or a Saturday, then the interval ticks at any hour and the  *)
(* user chooses preferences.                                               *)
(***************************************************************************)
\* the first and the last minute of every hour of a Monday and of a
\* Saturday in January
DayClocks ==
    {[hour |-> h, minute |-> m, day |-> d, month |-> 0] :
        h \in 0..23, m \in {0, 59}, d \in {1, 6}}

InitDay ==
    InitRecommendation({fallbackRoutes(SomeRequest)}, {mockWeather},
                       DayClocks, {Null}, {NoStored})

NextDay ==
    \/ \E clock \in DayClocks : IntervalTick(clock)
    \/ \E pref \in Preferences : choosePreference(pref)

SpecDay == InitDay /\ [][NextDay]_vars

(***************************************************************************)
(* Specification of the user's choice against older fetches.  The first    *)
(* state is the one after the user set an origin, set the other origin     *)
(* before the provider answered, and the first of the two fetches          *)
(* completed.  From there the user chooses routes or clears, and the       *)
(* provider answers; no end point and no mode changes, so no fetch is      *)
(* initiated, and a fetch that completes after a choice was in flight when *)
(* the user chose.                                                         *)
(***************************************************************************)
InitChoice ==
    /\ \E first \in Locations :
          LET older == [id |-> 1, origin |-> first,
                        destination |-> DEFAULT_DESTINATION,
                        mode |-> "walking"]
          IN  /\ origin \in Locations \ {first}
              /\ routes \in {transformedRoutes(a, older) : a \in RouteAnswers}
                                \cup {fallbackRoutes(older)}
              /\ inflight = {[id |-> 2, origin |-> origin,
                              destination |-> DEFAULT_DESTINATION,
                              mode |-> "walking"]}
    /\ destination = DEFAULT_DESTINATION
    /\ selectedRoute = defaultSelection(routes)
    /\ transportMode = "walking"
    /\ isLoading = FALSE
    /\ error = NoError
    /\ fetchCount = 2
    /\ InitWeatherState(OPENWEATHER_API_KEY)
    /\ storedPreference = NoStored
    /\ routePreference = readPreference(NoStored)
    /\ smartRecommendation =
          getSmartRecommendation(routes, routePreference, weather, alerts,
                                 timeContext, now.month)
    /\ InitSearchState /\ InitTimerState

NextChoice ==
    \/ \E t \in {types[k] : k \in 1..Len(types)} : handleRouteSelect(t)
    \/ \E i \in 1..Len(routes) : selectRoute(i)
    \/ \E f \in inflight : \E rawRoutes \in RouteAnswers :
          FetchSucceed(f, rawRoutes)
    \/ \E f \in inflight : FetchFail(f)
    \/ clearAll

SpecChoice == InitChoice /\ [][NextChoice]_vars

(***************************************************************************)
(* Properties.                                                             *)
(***************************************************************************)
RouteTypes(routeList) == {routeList[i].type : i \in 1..Len(routeList)}
IndexOfType(routeList, type) ==
    CHOOSE i \in 1..Len(routeList) : routeList[i].type = type

\* the flags and scores of the render of the current state
CurrentFlags == recommendationFlags(weather, alerts, timeContext, now.month)
CurrentScore(i) ==
    scoreRoute(routes[i], routes, routePreference, weather, CurrentFlags).score
TopScorers ==
    {i \in 1..Len(routes) : \A j \in 1..Len(routes) :
                                CurrentScore(j) <= CurrentScore(i)}

\* the per-type fingerprint table of the design: lighting, sidewalks, shade
\* percent, rest spots, night-friendly
FingerprintOf(type) ==
    CASE type = "fastest" -> <<"mixed", "partial", 30, 1, FALSE>>
      [] type = "safest" -> <<"well-lit", "continuous", 60, 3, TRUE>>
      [] type = "comfortable" -> <<"well-lit", "continuous", 75, 5, TRUE>>
      [] type = "scenic" -> <<"mixed", "continuous", 80, 6, FALSE>>
CarriesFingerprint(route) ==
    <<route.safety.lightingLevel, route.safety.sidewalkCoverage,
      route.comfort.shadePercent, route.comfort.restSpotCount,
      route.nightFriendly>> = FingerprintOf(route.type)
\* a set of exactly a fastest, a safest and a comfortable route, in this
\* order, each with the fingerprint of its type
IsThreeTypeSet(routeList) ==
    /\ Len(routeList) = 3
    /\ [i \in 1..3 |-> routeList[i].type]
          = <<"fastest", "safest", "comfortable">>
    /\ \A i \in 1..3 : CarriesFingerprint(routeList[i])

----
\* C1: once no route fetch is in flight, the stored routes and the selection
\* are those of the most recently initiated fetch, whose parameters are the
\* current origin, destination and transport mode whenever both end points
\* are set: every stored route runs from the origin to the destination, by
\* the current mode (or is the straight line of the fallback).
C1_LatestFetchWins ==
    (inflight = {} /\ routes # <<>>
       /\ origin # NoLocation /\ destination # NoLocation)
    => /\ \A i \in 1..Len(routes) :
             /\ routes[i].geometry.from = origin
             /\ routes[i].geometry.to = destination
             /\ routes[i].geometry.profile \in {transportMode, "straight-line"}
       /\ selectedRoute # Null
          => /\ selectedRoute.geometry.from = origin
             /\ selectedRoute.geometry.to = destination
             /\ selectedRoute.geometry.profile
                   \in {transportMode, "straight-line"}

\* C2: the recommendation is null exactly when there are no routes, and
\* otherwise carries the id and type of exactly one route of the set.
C2_RecommendsOneMember ==
    /\ (smartRecommendation = Null) <=> (routes = <<>>)
    /\ routes # <<>>
       => Cardinality({i \in 1..Len(routes) :
             /\ routes[i].id = smartRecommendation.routeId
             /\ routes[i].type = smartRecommendation.routeType}) = 1

W_C2_RecommendedOfFour ==
    /\ Len(routes) >= 4
    /\ weather = Null
    /\ smartRecommendation # Null
    /\ smartRecommendation.routeId = routes[3].id

\* C3: the recommended route is the earliest of the routes that score
\* highest, and the sort keeps routes of equal score in input order.
C3_EarliestOfTiedWins ==
    routes # <<>>
    => /\ smartRecommendation.routeId
            = routes[CHOOSE i \in TopScorers :
                        \A j \in TopScorers : i <= j].id
       /\ LET ranked == rankedRoutes(routes, routePreference, weather,
                                     alerts, timeContext, now.month)
              pos(p) == CHOOSE i \in 1..Len(routes) :
                            routes[i].id = ranked[p].route.id
          IN  \A p, q \in 1..Len(ranked) :
                 (p < q /\ ranked[p].score = ranked[q].score)
                 => pos(p) < pos(q)

W_C3_TieAtTheTop ==
    /\ routes # <<>>
    /\ Cardinality(TopScorers) >= 2
    /\ smartRecommendation # Null
    /\ 1 \notin TopScorers

\* C4: whenever a route fetch completes, with any answer or with a failure,
\* the stored route set holds a fastest, a safest and a comfortable route.
C4_ThreeTypesAfterFetch ==
    [][\A f \in inflight :
          f \notin inflight'
          => {"fastest", "safest", "comfortable"} \subseteq RouteTypes(routes')
      ]_vars

W_C4_TwoSynthesized ==
    /\ Len(routes) = 3
    /\ routes[1].id = <<"route", 0>>
    /\ routes[2].duration * 100 = routes[1].duration * 110
    /\ routes[3].duration * 100 = routes[1].duration * 115
    /\ inflight = {}

\* C5: in the dark, a well-lit night-friendly route scores strictly more
\* than the same route made dark and not night-friendly, all else equal.
C5_DarkHours ==
    \A i \in 1..Len(routes) :
       (timeContext.isDark /\ routes[i].safety.lightingLevel = "well-lit"
          /\ routes[i].nightFriendly)
       => LET twin == [routes[i] EXCEPT !.safety.lightingLevel = "dark",
                                         !.nightFriendly = FALSE]
          IN  CurrentScore(i) >
                 scoreRoute(twin, routes, routePreference, weather,
                            CurrentFlags).score

W_C5_WellLitInTheDark ==
    /\ timeContext.isDark
    /\ smartRecommendation # Null
    /\ \E i \in 1..Len(routes) :
          routes[i].safety.lightingLevel = "well-lit" /\ routes[i].nightFriendly

\* C6: the ranked order and the recommendation depend on the routes, the
\* preference, the weather state and the time context only: a call made
\* when the clock reads any other month gives the same result.
C6_NoAmbientInput ==
    \A month \in 0..11 :
       /\ getSmartRecommendation(routes, routePreference, weather, alerts,
                                 timeContext, month) = smartRecommendation
       /\ rankedRoutes(routes, routePreference, weather, alerts,
                       timeContext, month)
            = rankedRoutes(routes, routePreference, weather, alerts,
                           timeContext, now.month)

\* C7: scenario A.  For the fastest (1000 s), safest (1200 s) and
\* comfortable (1150 s) routes with the table fingerprints, preference safe,
\* darkness and clear calm 70 degree weather, the safest route is
\* recommended.
ScenarioAHolds ==
    /\ IsThreeTypeSet(routes)
    /\ [i \in 1..3 |-> routes[i].duration] = <<100000, 120000, 115000>>
    /\ routePreference = "safe"
    /\ timeContext.isDark
    /\ weather # Null
    /\ weather.current.condition = "clear"
    /\ weather.current.temp = 70
    /\ weather.current.windSpeed <= 15
C7_ScenarioA ==
    ScenarioAHolds => smartRecommendation.routeType = "safest"

W_C7_RushHourManyCrossings ==
    /\ ScenarioAHolds
    /\ timeContext.isRushHour
    /\ routes[2].safety.crossingCount > 4
    /\ routes[3].safety.crossingCount <= 3
    /\ smartRecommendation # Null

\* C8: scenario B.  Rain, preference fast, daylight, and a fastest, a safest
\* and a comfortable route with the table fingerprints.
ScenarioBHolds ==
    /\ IsThreeTypeSet(routes)
    /\ routePreference = "fast"
    /\ ~timeContext.isDark
    /\ weather # Null
    /\ weather.current.condition = "rain"
\* the position of the route of a type in the ranked order
RankOf(type) ==
    LET ranked == rankedRoutes(routes, routePreference, weather, alerts,
                               timeContext, now.month)
    IN  CHOOSE p \in 1..Len(ranked) : ranked[p].route.type = type
ScoreOf(type) == CurrentScore(IndexOfType(routes, type))
\* no contextual rule other than the rain rule is active
NoOtherContextualRule ==
    /\ weather.current.temp >= 40 /\ weather.current.temp <= 85
    /\ weather.current.windSpeed <= 15
    /\ ~timeContext.isRushHour
    /\ ~CurrentFlags.isLateNight
    /\ ~(CurrentFlags.isMidDay /\ weather.current.temp > 75)
    /\ \A i \in 1..Len(routes) : lengthPenalty(routes[i], routes) = NoRule
ScenarioBScores ==
    (NoOtherContextualRule
       /\ \A i \in 1..Len(routes) : routes[i].safety.crossingCount <= 3)
    => /\ ScoreOf("fastest") = 350
       /\ ScoreOf("safest") = 750
       /\ ScoreOf("comfortable") = 950
       /\ smartRecommendation.routeType = "comfortable"

\* C8 as stated: the fastest route is outranked by both the safest and the
\* comfortable route, and with no other contextual rule active and at most
\* three crossings the scores are 35, 75 and 95 and comfortable is
\* recommended.
C8_ScenarioB_AsStated ==
    ScenarioBHolds
    => /\ RankOf("safest") < RankOf("fastest")
       /\ RankOf("comfortable") < RankOf("fastest")
       /\ ScenarioBScores

\* C8 amended: the fastest route is outranked by the comfortable route, and
\* by the safest route when it is not colder than 40 degrees; with no other
\* contextual rule active (the midday rule above 75 degrees included) and at
\* most three crossings the scores are 35, 75 and 95 and comfortable is
\* recommended.
C8_ScenarioB ==
    ScenarioBHolds
    => /\ RankOf("comfortable") < RankOf("fastest")
       /\ weather.current.temp >= 40 => RankOf("safest") < RankOf("fastest")
       /\ ScenarioBScores

W_C8_RainOnly ==
    /\ ScenarioBHolds
    /\ NoOtherContextualRule
    /\ \A i \in 1..Len(routes) : routes[i].safety.crossingCount <= 3
    /\ routes[1].id = <<"route", 0>>
    /\ smartRecommendation.routeType = "comfortable"

\* C9: when a route fetch fails, it leaves exactly the three routes fastest,
\* safest, comfortable, no error, isLoading false, and a recommendation on
\* that set is not null.
C9_FallbackOnFailure ==
    [][\A f \in inflight :
          FetchFail(f)
          => /\ [i \in 1..Len(routes') |-> routes'[i].type]
                   = <<"fastest", "safest", "comfortable">>
             /\ error' = NoError
             /\ isLoading' = FALSE
             /\ smartRecommendation' # Null
             /\ \A pref \in Preferences :
                   getSmartRecommendation(routes', pref, weather', alerts',
                                          timeContext', now'.month) # Null
      ]_vars

W_C9_FallbackStored ==
    /\ Len(routes) = 3
    /\ smartRecommendation # Null
    /\ routes[1].id = <<"fallback", 0>>
    /\ routes[1].duration > 0
    /\ error = NoError
    /\ ~isLoading

\* C10: a step in which fetchWeather runs without a credential: the end
\* points change and one of them is there for the effect to fetch for
MockFetchStep ==
    /\ apiKey = ""
    /\ <<origin', destination'>> # <<origin, destination>>
    /\ origin' # NoLocation \/ destination' # NoLocation
MockInstalled ==
    /\ weather' # Null
    /\ weather'.current.condition = "clear"
    /\ weather'.current.temp = 72
    /\ alerts' = <<>>
    /\ generateAlerts(weather') = <<>>

\* C10 as stated: without a credential, fetchWeather installs the mock
\* snapshot (clear, 72 degrees), the alerts generated from it are empty, and
\* getRouteWeatherTags on it gives the empty list.
C10_MockWeather_AsStated ==
    [][MockFetchStep
       => (MockInstalled /\ getRouteWeatherTags(weather') = <<>>)]_vars

\* C10 amended: without a credential, fetchWeather installs the mock
\* snapshot (clear, 72 degrees), the alerts generated from it are empty, and
\* getRouteWeatherTags on it gives the one tag of clear mild weather.
C10_MockWeather ==
    [][MockFetchStep
       => (MockInstalled
           /\ getRouteWeatherTags(weather') = <<"Great walking weather">>)
      ]_vars

W_C10_MockAfterMove ==
    /\ apiKey = ""
    /\ origin = "Washington Square"
    /\ destination = NoLocation
    /\ weather = mockWeather
    /\ alerts = <<>>
    /\ ~weatherIsLoading

\* C11: when a live weather fetch fails (a request fails, both endpoints
\* answer not OK, or the answer cannot be read), the weather state after
\* the call is the mock snapshot and the weather error stays null.
C11_MockOnLiveFailure ==
    [][\A i \in 1..Len(weatherInflight) :
          (\/ WeatherFetchFails(i)
           \/ \E k \in 1..Len(OneCallAnswers) :
                 /\ OneCallAnswers[k].hourly = Null
                 /\ OneCallAnswered(i, OneCallAnswers[k]))
          => /\ weather' = mockWeather
             /\ weatherError' = NoError
      ]_vars

\* C12: once a newer query has been issued, or a suggestion has been
\* selected or the field cleared, the answer to an earlier query does not
\* change the suggestion list.
C12_LatestQueryWins ==
    [][\A s \in searchInflight :
          (s \notin searchInflight'
             /\ (s.id < searchCount \/ ~isUserTyping))
          => results' = results
      ]_vars

\* C13: across mounts, unmounts and remounts, exactly one refresh interval
\* is active while the weather provider is mounted, and none once it is
\* unmounted.
C13_OneIntervalPerSession ==
    /\ mounted => (timers = {interval} /\ Cardinality(timers) = 1)
    /\ ~mounted => timers = {}

W_C13_ThirdInterval ==
    /\ mounted
    /\ timerCount = MaxMounts
    /\ timers = {MaxMounts}
    /\ now.hour = 11

\* C14: in every route set that fetchRoutes stores, no two routes have the
\* same type.
C14_TypesUnique ==
    \A i, j \in 1..Len(routes) :
       routes[i].type = routes[j].type => i = j

\* the winning entry of the ranked order, and the text of the reason given
BestScored ==
    rankedRoutes(routes, routePreference, weather, alerts, timeContext,
                 now.month)[1]
ReasonText == smartRecommendation.reason.text
EarnedRainTag ==
    \/ Includes(BestScored.reasons, "has shelter spots")
    \/ Includes(BestScored.reasons, "continuous sidewalks")
\* the contextual reasons, each with its condition and its tag
ContextualReasons ==
    << <<"Best for heat", CurrentFlags.isHotWeather, "good shade coverage">>,
       <<"Quickest in cold", CurrentFlags.isColdWeather,
         "shorter exposure time">>,
       <<"Wind-protected route", CurrentFlags.isWindy, "wind-protected">>,
       <<"Best for walk at", CurrentFlags.isDark, "well-lit for dark hours">>,
       <<"Safest for late night", CurrentFlags.isLateNight,
         "safest for late night">>,
       <<"Best for rush hour", CurrentFlags.isRushHour,
         "wide sidewalks for rush hour">>,
       <<"Great for weekend walk", CurrentFlags.isWeekend,
         "nice for weekend stroll">> >>

C16_GuardOnMissingEndPoint ==
    [][\A mode \in TransportModes \cup {"undefined"} :
          ((origin = NoLocation \/ destination = NoLocation)
             /\ fetchRoutes(mode))
          => /\ error' = "Please set both origin and destination"
             /\ inflight' = inflight
             /\ fetchCount' = fetchCount
             /\ routes' = routes
             /\ selectedRoute' = selectedRoute
             /\ isLoading' = isLoading
      ]_vars

W_C16_ErrorNextToRoutes ==
    /\ origin = NoLocation
    /\ destination # NoLocation
    /\ error = "Please set both origin and destination"
    /\ routes # <<>>
    /\ selectedRoute # Null
    /\ inflight = {}
    /\ ~isLoading

\* C17: the preference of the route list is always one of safe, fast and
\* comfy, whatever localStorage holds at the start; it changes only when the
\* user chooses a preference (or when a session starts and reads it); a
\* choice is stored, and a session starts with the stored value.
C17_PreferencePersisted ==
    /\ [](routePreference \in Preferences)
    /\ [][/\ routePreference' # routePreference
             => \/ \E pref \in Preferences : choosePreference(pref)
                \/ ~mounted /\ mounted'
          /\ \A pref \in Preferences :
                choosePreference(pref) => storedPreference' = pref
          /\ (~mounted /\ mounted' /\ storedPreference \in Preferences)
             => routePreference' = storedPreference
         ]_vars

\* C18: in every state, the selection is null or one of the routes of the
\* current route set.
C18_SelectionInRouteSet ==
    \/ selectedRoute = Null
    \/ \E i \in 1..Len(routes) : routes[i] = selectedRoute

W_C18_ChosenAfterSecondFetch ==
    /\ fetchCount = MaxFetches
    /\ inflight = {}
    /\ selectedRoute # Null
    /\ selectedRoute # defaultSelection(routes)
    /\ \E i \in 1..Len(routes) : routes[i] = selectedRoute

\* the rest-spot kinds of the per-type fingerprint table of the design
RestSpotKindsOf(type) ==
    CASE type = "fastest" -> <<"cafe">>
      [] type = "safest" -> <<"bench", "cafe">>
      [] type = "comfortable" -> <<"bench", "cafe", "park">>
      [] type = "scenic" -> <<"bench", "park", "cafe">>

\* C19: every route of a stored route set, whether characterized from a
\* provider path, synthesized for a missing type or made by the fallback,
\* carries the fingerprint the table gives for its type: lighting,
\* sidewalks, shade percent, rest-spot count and kinds, night-friendly.
C19_CanonicalFingerprints ==
    \A i \in 1..Len(routes) :
       /\ CarriesFingerprint(routes[i])
       /\ routes[i].comfort.restSpotTypes = RestSpotKindsOf(routes[i].type)

W_C19_CharacterizedAndSynthesized ==
    /\ Len(routes) = 3
    /\ routes[2].id = <<"route", 1>>
    /\ routes[2].duration # (routes[1].duration * 110) \div 100
    /\ routes[3].duration = (routes[1].duration * 115) \div 100
    /\ routes[3].comfort.restSpotTypes = <<"bench", "cafe", "park">>

\* the branches in the order of the design, each with its condition in the
\* current state and the text of its reason
CascadeBranches ==
    LET earned == BestScored.reasons
        contextual == ContextualReasons
    IN
    << <<CurrentFlags.isRaining, "Best for rainy weather">>,
       <<CurrentFlags.isSnowing, "Safest in snow">> >>
    \o [k \in 1..Len(contextual) |->
          <<contextual[k][2] /\ Includes(earned, contextual[k][3]),
            contextual[k][1]>>]
    \o << <<CurrentFlags.hasWeatherAlerts, "Alert">>,
          <<Includes(earned, "matches your preference"),
            "Recommended for you">>,
          <<weather # Null /\ weather.current.condition = "clear"
              /\ weather.current.temp >= 60 /\ weather.current.temp <= 80,
            "Great walking weather">>,
          <<TRUE, "Best overall">> >>

\* C20: the reason is that of the first branch, in the order rain, snow,
\* heat, cold, wind, darkness, late night, rush hour, weekend, weather
\* alert, preference, clear weather, best overall, whose condition holds;
\* it is never empty.
C20_FirstBranchWins ==
    routes # <<>>
    => LET branches == CascadeBranches
           first == CHOOSE k \in 1..Len(branches) :
                       /\ branches[k][1]
                       /\ \A j \in 1..(k - 1) : ~branches[j][1]
       IN  /\ ReasonText = branches[first][2]
           /\ ReasonText # ""

W_C20_DarkBeforeRushHour ==
    /\ routes # <<>>
    /\ CurrentFlags.isDark /\ CurrentFlags.isRushHour
    /\ Includes(BestScored.reasons, "well-lit for dark hours")
    /\ Includes(BestScored.reasons, "wide sidewalks for rush hour")
    /\ ReasonText = "Best for walk at"


\* the titles of the alert rules, in the order of the rules
AlertOrder ==
    <<"Rain Expected", "Thunderstorm Warning", "Heat Advisory",
      "Cold Weather", "Windy Conditions", "Low Visibility",
      "Currently Raining", "Snow">>

\* whether each rule, in that order, matches the snapshot w
RuleMatches(w) ==
    LET current == w.current
        soon == Slice(w.hourly, 2)
        next3 == Slice(w.hourly, 3)
    IN  <<current.condition # "rain"
            /\ \E i \in 1..Len(soon) :
                  \/ soon[i].precipProbability > 50
                  \/ soon[i].condition \in {"rain", "drizzle"},
          current.condition = "thunderstorm"
            \/ \E i \in 1..Len(next3) : next3[i].condition = "thunderstorm",
          current.temp > 90 \/ current.feelsLike > 95,
          current.temp < 32 \/ current.feelsLike < 25,
          current.windSpeed > 20,
          current.visibility < 1000,
          current.condition \in {"rain", "drizzle"},
          current.condition = "snow">>

\* C21: the alert list of a weather snapshot is in the rule order imminent
\* rain, thunderstorm, heat advisory, cold warning, high wind, low
\* visibility, active rain or drizzle, snow, with each alert at most once,
\* so that alerts[0] is the alert of the first rule that matches.
C21_AlertsInRuleOrder ==
    weather # Null
    => LET matches == RuleMatches(weather)
           matching == {k \in 1..Len(AlertOrder) : matches[k]}
           place(i) == CHOOSE k \in 1..Len(AlertOrder) :
                           AlertOrder[k] = alerts[i].title
       IN  /\ \A i \in 1..Len(alerts) :
                 \E k \in matching : AlertOrder[k] = alerts[i].title
           /\ \A i, j \in 1..Len(alerts) : i < j => place(i) < place(j)
           /\ Len(alerts) = Cardinality(matching)
           /\ matching # {}
                 => alerts[1].title =
                       AlertOrder[CHOOSE k \in matching :
                                     \A j \in matching : k <= j]

\* drizzle under a thunderstorm forecast, hot and windy in low visibility:
\* the active rain is the last of five alerts
W_C21_FiveAlerts ==
    /\ weather # Null
    /\ weather.current.condition = "drizzle"
    /\ Len(alerts) = 5
    /\ alerts[1].title = "Thunderstorm Warning"
    /\ alerts[5].title = "Currently Raining"


\* what the rules that do not read the weather add to the score of route i:
\* the preference, the time-conditioned rules, the context-free bonuses and
\* the length penalty
NonWeatherScore(i) ==
    LET fl == CurrentFlags
        route == routes[i]
    IN  preferenceRule(route, routePreference).score
        + darkRule(route, fl).score + lateNightRule(route, fl).score
        + rushHourRule(route, fl).score + middayRule(route, fl, weather).score
        + weekendRule(route, fl).score + safetyBonus(route).score
        + lengthPenalty(route, routes).score

\* C22: without a weather snapshot the rain/snow, hot, cold and windy rules
\* add nothing: the score of every route is the sum of the preference, the
\* time-conditioned, the context-free and the length-penalty contributions.
C22_NoWeatherNoWeatherRules ==
    weather = Null
    => \A i \in 1..Len(routes) : CurrentScore(i) = NonWeatherScore(i)

\* C23: the rain/snow rule adds 10 per rest spot, 20 for continuous
\* sidewalks and -15 for the fastest type exactly when the current condition
\* is rain or snow, and adds nothing under any other condition.
C23_RainSnowRuleOnRainOrSnow ==
    \A i \in 1..Len(routes) :
       rainSnowRule(routes[i], CurrentFlags).score =
          IF weather # Null /\ weather.current.condition \in {"rain", "snow"}
          THEN routes[i].comfort.restSpotCount * 100
               + (IF routes[i].safety.sidewalkCoverage = "continuous"
                  THEN 200 ELSE 0)
               + (IF routes[i].type = "fastest" THEN -150 ELSE 0)
          ELSE 0

\* C24: with a weather snapshot above 85 F the hot rule adds 0.4 times the
\* shade percent, plus 20 for two rest spots or more, whatever the type of
\* the route; at 85 F or below it adds nothing.
C24_HotRuleIgnoresType ==
    weather # Null
    => \A i \in 1..Len(routes) :
          hotRule(routes[i], CurrentFlags).score =
             IF weather.current.temp > 85
             THEN routes[i].comfort.shadePercent * 4
                  + (IF routes[i].comfort.restSpotCount >= 2 THEN 200 ELSE 0)
             ELSE 0


\* the multiplier of a synthesized type, in hundredths
MultiplierOf(type) ==
    CASE type = "fastest" -> 100
      [] type = "safest" -> 110
      [] type = "comfortable" -> 115

\* C25: when the provider answers with fewer than three paths, the duration
\* and the distance of every synthesized route are those of the first route
\* times the multiplier of the synthesized type (safest 1.10, comfortable
\* 1.15).
C25_SynthesizedScaledByMultiplier ==
    [][\A f \in inflight : \A rawRoutes \in RouteAnswers :
          (Len(rawRoutes) < 3 /\ FetchSucceed(f, rawRoutes))
          => \A i \in (Len(rawRoutes) + 1)..Len(routes') :
                /\ routes'[i].duration * 100
                      = routes'[1].duration * MultiplierOf(routes'[i].type)
                /\ routes'[i].distance * 100
                      = routes'[1].distance * MultiplierOf(routes'[i].type)]_vars


\* the seven bands of the day and the hours of each
DayBands ==
    {"early-morning", "morning", "midday", "afternoon", "evening", "night",
     "late-night"}
BandSpan(band) ==
    CASE band = "early-morning" -> 5..6
      [] band = "morning" -> 7..11
      [] band = "midday" -> 12..13
      [] band = "afternoon" -> 14..16
      [] band = "evening" -> 17..20
      [] band = "night" -> (21..23) \cup {0}
      [] band = "late-night" -> 1..4

\* C26: the time of day is a total partition of the hours 0 to 23 into the
\* seven bands: every hour is in exactly one band, every band has an hour,
\* and the bands are early-morning 5-6, morning 7-11, midday 12-13,
\* afternoon 14-16, evening 17-20, night 21-0 and late-night 1-4; the time
\* context carries the band of the hour the clock reads.
C26_BandsPartitionTheDay ==
    /\ \A h \in 0..23 :
          /\ getTimeOfDay(h) \in DayBands
          /\ \A band \in DayBands : getTimeOfDay(h) = band <=> h \in BandSpan(band)
    /\ \A band \in DayBands : \E h \in 0..23 : getTimeOfDay(h) = band
    /\ timeContext.timeOfDay \in DayBands
    /\ now.hour \in BandSpan(timeContext.timeOfDay)

\* the interval ticked in the last minute of hour 0, which is night
W_C26_MidnightIsNight ==
    /\ now.hour = 0 /\ now.minute = 59
    /\ timeContext.timeOfDay = "night"
    /\ routePreference = "comfy"


\* C27: whenever the stored route set is not empty, the origin and the
\* destination are both set; so after clearAll the route set stays empty
\* and the selection stays null until a fetch made after it completes, even
\* if a fetch was in flight when clearAll was called.
C27_RoutesNeedEndPoints ==
    routes # <<>> => origin # NoLocation /\ destination # NoLocation


\* C28: isLoading is true whenever a route fetch is in flight, and becomes
\* false only when none remains in flight, also when several fetches overlap
\* and finish at different times.
C28_LoadingWhileInFlight ==
    /\ [](inflight # {} => isLoading)
    /\ [][(isLoading /\ ~isLoading') => inflight' = {}]_vars


\* C29: in the start field isSearching is true only while a debounce timer
\* is pending or a search request is in flight: once neither is the case
\* after any keystrokes, selections and clears, isSearching is false.
C29_SearchingOnlyWhilePending ==
    isSearching => (searchTimer # NoTimer \/ searchInflight # {})


\* C30: once the user has chosen a route, the selection changes only by a
\* later choice, by clearAll, or when a fetch initiated after the choice
\* completes: the completion of a fetch that was in flight when the user
\* chose does not replace the selection.  A selection other than the one a
\* completed fetch stores is a choice of the user.
C30_ChoiceSurvivesOlderFetch ==
    [][\A f \in inflight :
          (/\ selectedRoute # Null
           /\ selectedRoute # defaultSelection(routes)
           /\ f \notin inflight')
          => selectedRoute' = selectedRoute]_vars

====
